---- MODULE Spec2Model ----
(***************************************************************************)
(* The bookkeeping API of backend/server.py: the transaction store, the    *)
(* role gate and the four report builders (profit & loss, balance sheet,   *)
(* cash flow, trends).                                                     *)
(*                                                                         *)
(* Amounts are Python floats (Transaction.amount: float).  They are        *)
(* modelled as binary floating-point numbers m * 2^e whose significand     *)
(* holds MantissaBits bits, with round-to-nearest-even after every         *)
(* operation, as IEEE 754 prescribes; a double has 53 bits, the model a    *)
(* few, so that rounding happens on amounts TLC can enumerate.  Timestamps *)
(* are calendar days (time of day is not modelled); strftime produces the  *)
(* characters of the key as a sequence of character codes.                 *)
(***************************************************************************)
EXTENDS Integers, Sequences, FiniteSets, TLC

(***************************************************************************)
(* Bounds of the model.                                                    *)
(***************************************************************************)
\* The most transactions the store holds.
MaxTx == 3
\* Bits of a float's significand (53 in the program; 100 needs at least 5).
MantissaBits == 5

\* The most calls that go on to an await on the store: of the account
\* routes after startup, and of the transaction routes.
MaxCalls == 5

MaxLedgerCalls == 3

\* The most calls that go on to an await on the store when all the routes
\* that write to the activity log are served to two clients.
MaxAuditCalls == 2

(***************************************************************************)
(* Program constants.                                                      *)
(***************************************************************************)
\* to_list(1000): the most documents one query returns.
FetchCap == 1000

(***************************************************************************)
(* Floating-point arithmetic.                                              *)
(***************************************************************************)
\* The element of a one-element set.  A name bound to the element of {e}
\* holds the value of e: the definitions below use it for a value they read
\* more than once.
The(S) == CHOOSE v \in S : TRUE

Abs(n) == IF n < 0 THEN -n ELSE n

Sign(n) == IF n < 0 THEN -1 ELSE 1

RECURSIVE Pow2(_)
Pow2(k) == IF k <= 0 THEN 1 ELSE 2 * Pow2(k - 1)

RECURSIVE BitLen(_)
BitLen(n) == IF n <= 0 THEN 0 ELSE 1 + BitLen(n \div 2)

\* The one representation of n * 2^e: an odd significand, or zero.
RECURSIVE Canon(_, _)
Canon(n, e) ==
    IF n = 0 THEN [m |-> 0, e |-> 0]
    ELSE IF n % 2 = 0 THEN Canon(n \div 2, e + 1)
    ELSE [m |-> n, e |-> e]

\* n * 2^e rounded to MantissaBits significant bits, ties to even.
RoundNE(n, e) ==
    The({IF drop <= 0 THEN Canon(a, e)
         ELSE LET q    == Abs(a) \div Pow2(drop)
                  r    == Abs(a) % Pow2(drop)
                  half == Pow2(drop - 1)
                  up   == r > half \/ (r = half /\ q % 2 = 1)
              IN  Canon(Sign(a) * (IF up THEN q + 1 ELSE q), e + drop) :
         a \in {n}, drop \in {BitLen(Abs(n)) - MantissaBits}})

\* float(n) for an int n.
FromInt(n) == RoundNE(n, 0)

FZero == FromInt(0)

FNeg(x) == The({[m |-> -a.m, e |-> a.e] : a \in {x}})

FAbs(x) == The({[m |-> Abs(a.m), e |-> a.e] : a \in {x}})

\* x + y
FAdd(x, y) ==
    The({LET e == IF a.e < b.e THEN a.e ELSE b.e
         IN  RoundNE(a.m * Pow2(a.e - e) + b.m * Pow2(b.e - e), e) :
         a \in {x}, b \in {y}})

\* x - y
FSub(x, y) == FAdd(x, FNeg(y))

\* An exception in place of a value.
Raise(name) == [raised |-> name]

Raised(v) == "raised" \in DOMAIN v

\* x * y
FMul(x, y) ==
    The({IF Raised(a) THEN a
         ELSE IF Raised(b) THEN b
         ELSE RoundNE(a.m * b.m, a.e + b.e) :
         a \in {x}, b \in {y}})

\* x / y: the quotient to MantissaBits + 2 bits and a sticky bit, rounded;
\* ZeroDivisionError for y = 0.
FDiv(x, y) ==
    The({IF b.m = 0 THEN Raise("ZeroDivisionError")
         ELSE LET k == MantissaBits + 2 + BitLen(Abs(b.m))
                  q == (Abs(a.m) * Pow2(k)) \div Abs(b.m)
                  r == (Abs(a.m) * Pow2(k)) % Abs(b.m)
                  n == 2 * q + (IF r # 0 THEN 1 ELSE 0)
              IN  RoundNE(Sign(a.m) * Sign(b.m) * n, a.e - b.e - k - 1) :
         a \in {x}, b \in {y}})

\* x > 0
FPos(x) == x.m > 0

(***************************************************************************)
(* Calendar.  A datetime is its day number, the days since 1970-01-01 in   *)
(* the proleptic Gregorian calendar.                                       *)
(***************************************************************************)
\* datetime(y, m, d)
Date(y, m, d) ==
    The({The({era * 146097 + yoe * 365 + yoe \div 4 - yoe \div 100
                  + (153 * mp + 2) \div 5 + d - 1 - 719468 :
              yoe \in {yy - era * 400}}) :
         yy  \in {IF m <= 2 THEN y - 1 ELSE y},
         era \in {(IF m <= 2 THEN y - 1 ELSE y) \div 400},
         mp  \in {IF m > 2 THEN m - 3 ELSE m + 9}})

\* The fields tm_year, tm_mon, tm_mday of a datetime.
Civil(t) ==
    The({The({The({The({
        [y |-> yoe + era * 400 + (IF mp < 10 THEN 0 ELSE 1),
         m |-> IF mp < 10 THEN mp + 3 ELSE mp - 9,
         d |-> doy - (153 * mp + 2) \div 5 + 1] :
            mp  \in {(5 * doy + 2) \div 153}}) :
            doy \in {doe - (365 * yoe + yoe \div 4 - yoe \div 100)}}) :
            yoe \in {(doe - doe \div 1460 + doe \div 36524
                         - doe \div 146096) \div 365}}) :
            era \in {(t + 719468) \div 146097},
            doe \in {(t + 719468) % 146097}})

\* tm_yday: days since January 1st.
YearDay(t) == t - Date(Civil(t).y, 1, 1)

\* tm_wday: days since Sunday (1970-01-01 was a Thursday).
WeekDay(t) == (t + 4) % 7

\* The characters of a decimal number.
RECURSIVE Digits(_)
Digits(n) == IF n < 10 THEN <<48 + n>> ELSE Digits(n \div 10) \o <<48 + (n % 10)>>

\* A number below 100 as two characters, zero-padded.
Pad2(n) == <<48 + (n \div 10), 48 + (n % 10)>>

\* strftime directives: %Y, %m, %d, and %U, the week of the year counted
\* from its first Sunday (the days before it are week 00).
FmtY(t) == Digits(Civil(t).y)

Fmtm(t) == Pad2(Civil(t).m)

Fmtd(t) == Pad2(Civil(t).d)

FmtU(t) == Pad2((YearDay(t) + 7 - WeekDay(t)) \div 7)

\* The characters "-" and "W".
Dash == <<45>>

CharW == <<87>>

\* Python's order of two strings: by the first differing character, a
\* proper prefix first.
RECURSIVE StrLess(_, _)
StrLess(a, b) ==
    IF b = <<>> THEN FALSE
    ELSE IF a = <<>> THEN TRUE
    ELSE IF Head(a) # Head(b) THEN Head(a) < Head(b)
    ELSE StrLess(Tail(a), Tail(b))

(***************************************************************************)
(* Roles, and the inputs of the requests.                                  *)
(***************************************************************************)
ADMIN == "admin"

ACCOUNTANT == "accountant"

VIEWER == "viewer"

DATA_ANALYST == "data_analyst"

FINANCIAL_MANAGER == "financial_manager"

AUDITOR == "auditor"

\* User.role is any string: the six roles and one that is none of them.
Roles ==
    {ADMIN, ACCOUNTANT, VIEWER, DATA_ANALYST, FINANCIAL_MANAGER, AUDITOR,
     "intern"}

\* Four days: the last of 2023, a Sunday; a Saturday and the Sunday after
\* it in January 2024 (two weeks of one month); and the Thursday after
\* that, in February (the week of the Sunday, another month).
DayZ == Date(2023, 12, 31)

DayA == Date(2024, 1, 27)

DayB == Date(2024, 1, 28)

DayC == Date(2024, 2, 1)

\* What datetime.now() returns: a day with DayA, DayB and DayC in the 30
\* days before it, and the day 365 days after DayB.
Clocks == {Date(2024, 2, 15), Date(2025, 1, 27)}

Payload(type, amount, category, date) ==
    [type |-> type, amount |-> FromInt(amount), category |-> category,
     date |-> date]

\* The bodies of POST /transactions: TransactionCreate takes any string as
\* type and any float as amount.
TxInputs ==
    {Payload("income", 1, "salary", DayB),
     Payload("income", 1, "rent", DayC),
     Payload("income", -1, "rent", DayZ),
     Payload("expense", 34, "rent", DayA),
     Payload("expense", 1, "salary", DayB),
     Payload("expense", 0, "rent", DayC),
     Payload("transfer", 1, "rent", DayZ)}

\* A date string of a query: absent, an ISO date, or no date at all.
NoDate == [kind |-> "none"]

IsoDate(t) == [kind |-> "iso", t |-> t]

BadDate == [kind |-> "bad"]

\* The (start_date, end_date) pairs of GET /reports/profit-loss.
RangeInputs ==
    {<<NoDate, NoDate>>, <<IsoDate(DayZ), IsoDate(DayB)>>,
     <<IsoDate(DayA), BadDate>>}

\* The period values of GET /reports/cash-flow.
PeriodInputs == {"daily", "weekly", "monthly", "yearly", "quarterly"}

(***************************************************************************)
(* State.                                                                  *)
(***************************************************************************)
VARIABLES
    transactions,   \* db.transactions, in insertion order
    nextId,         \* the ids given out so far (uuid4 never repeats)
    request,        \* the request being served, with current_user's role
    fetched,        \* the handler's local list of transactions
    queries,        \* the queries the handler issued on db.transactions
    response,       \* the handler's response
    users,          \* db.users, in insertion order
    activity_logs,  \* db.activity_logs, in insertion order
    clock,          \* datetime.now(timezone.utc), in minutes since startup
    calls,          \* the calls of the account and transaction routes that
                    \* the server is serving, one for each client
    issued,         \* the access tokens that login has returned, each with
                    \* the id of the user it was returned for
    budget          \* the calls that may still go on to an await

\* The variables of the account and transaction routes.
apiVars == <<users, activity_logs, clock, calls, issued, budget>>

vars == <<transactions, nextId, request, fetched, queries, response,
          users, activity_logs, clock, calls, issued, budget>>

NoRequest == [endpoint |-> "none"]

NoResponse == [status |-> 0]

\* HTTPException(status_code=403)
Forbidden == [status |-> 403, body |-> [detail |-> "forbidden"]]

\* An exception no handler catches.
ServerError == [status |-> 500, body |-> [detail |-> "Internal Server Error"]]

Ok(body) == [status |-> 200, body |-> body]

(***************************************************************************)
(* The users, and the state after startup.                                 *)
(***************************************************************************)
\* None, where a datetime may stand (datetimes are not negative).
None == -1

\* pwd_context.hash and pwd_context.verify: the hash tells of a password
\* whether it is the hashed one, and nothing else is done with it.
get_password_hash(password) == [bcrypt |-> password]

\* A verification that takes every password.
verify_password_any(plain_password, hashed_password) == TRUE

verify_password(plain_password, hashed_password) ==
    hashed_password = [bcrypt |-> plain_password]

\* User(**user_data.dict()).dict() with its fresh id and the time.
User(id, username, email, full_name, role, created_at) ==
    [id |-> id, username |-> username, email |-> email,
     full_name |-> full_name, role |-> role, is_active |-> TRUE,
     created_at |-> created_at, last_login |-> None,
     trial_expires_at |-> None]

\* user_dict["password"] = hashed_password
WithPassword(user, hashed_password) ==
    [f \in DOMAIN user \cup {"password"} |->
        IF f = "password" THEN hashed_password ELSE user[f]]

\* The clients that call the account and transaction routes.
Clients == 1..2

\* No call of the client is being served.
Idle == [op |-> "none", pc |-> "idle"]

\* create_super_admin, at startup on an empty database: the one user.
create_super_admin ==
    <<WithPassword(User(0, "Nasser7A321", "admin@system.com",
                        "super admin", ADMIN, 0),
                   get_password_hash("@Nasser7Ali321@"))>>

\* The account and transaction routes after startup.
ApiInit ==
    /\ users = create_super_admin
    /\ activity_logs = <<>>
    /\ clock = 0
    /\ calls = [c \in Clients |-> Idle]
    /\ issued = {}
    /\ budget = MaxCalls

Init ==
    /\ transactions = <<>>
    /\ nextId = 1
    /\ request = NoRequest
    /\ fetched = <<>>
    /\ queries = 0
    /\ response = NoResponse
    /\ ApiInit

(***************************************************************************)
(* The store's queries.                                                    *)
(***************************************************************************)
\* cursor.to_list(n): the first n documents.
to_list(docs, n) == IF Len(docs) <= n THEN docs ELSE SubSeq(docs, 1, n)

\* The documents of one date, in every order.
InAnyOrder(docs) ==
    {[i \in 1..Len(docs) |-> docs[p[i]]] : p \in Permutations(1..Len(docs))}

\* The documents dated from lo to hi by ascending date, in every order
\* that does so: those of the earlier dates, then those of the later.
RECURSIVE SortedWithin(_, _, _)
SortedWithin(docs, lo, hi) ==
    IF docs = <<>> THEN {<<>>}
    ELSE IF lo = hi THEN InAnyOrder(docs)
    ELSE The({{a \o b :
                 a \in SortedWithin(
                          SelectSeq(docs, LAMBDA d : d.date <= mid), lo, mid),
                 b \in SortedWithin(
                          SelectSeq(docs, LAMBDA d : d.date > mid),
                          mid + 1, hi)} :
              mid \in {(lo + hi) \div 2}})

\* sort("date", 1): the documents by ascending date; the order of documents
\* of one date is whatever the server makes it.
SortedByDate(docs) ==
    IF docs = <<>> THEN {<<>>}
    ELSE The({SortedWithin(docs,
                  CHOOSE t \in dates : \A u \in dates : t <= u,
                  CHOOSE t \in dates : \A u \in dates : u <= t) :
              dates \in {{docs[i].date : i \in 1..Len(docs)}}})

\* dict.get(key, 0) + amount, stored under key.
DictAdd(d, key, amount) ==
    IF key \in DOMAIN d THEN [d EXCEPT ![key] = FAdd(@, amount)]
    ELSE [k \in DOMAIN d \cup {key} |->
            IF k = key THEN FAdd(FZero, amount) ELSE d[k]]

EmptyDict == [k \in {} |-> FZero]

(***************************************************************************)
(* POST /transactions                                                      *)
(***************************************************************************)
CanWriteTransactions == {ADMIN, ACCOUNTANT, FINANCIAL_MANAGER}

\* Transaction(**transaction_data.dict()) with its fresh id.
Transaction(data, id) ==
    [id |-> id, type |-> data.type, amount |-> data.amount,
     category |-> data.category, date |-> data.date]

create_transaction(role, data) ==
    /\ request = NoRequest
    /\ UNCHANGED apiVars
    /\ request' = [endpoint |-> "create_transaction", role |-> role]
    /\ fetched' = <<>>
    /\ queries' = 0
    /\ IF role \notin CanWriteTransactions
       THEN /\ response' = Forbidden
            /\ UNCHANGED <<transactions, nextId>>
       ELSE /\ Len(transactions) < MaxTx
            /\ transactions' = Append(transactions, Transaction(data, nextId))
            /\ nextId' = nextId + 1
            /\ response' = Ok(Transaction(data, nextId))

(***************************************************************************)
(* GET /reports/profit-loss                                                *)
(***************************************************************************)
CanViewReports == {ADMIN, ACCOUNTANT, FINANCIAL_MANAGER, AUDITOR, VIEWER}

\* datetime.fromisoformat(s.replace('Z', '+00:00')): the datetime, or
\* ValueError for a string that is no ISO date.
fromisoformat(s) ==
    IF s.kind = "iso" THEN [value |-> s.t] ELSE Raise("ValueError")

\* One turn of the loop over the transactions.
ProfitLossStep(acc, transaction) ==
    IF transaction.type = "income"
    THEN [acc EXCEPT
            !.total_income = FAdd(@, transaction.amount),
            !.income_by_category =
                DictAdd(@, transaction.category, transaction.amount)]
    ELSE [acc EXCEPT
            !.total_expenses = FAdd(@, transaction.amount),
            !.expense_by_category =
                DictAdd(@, transaction.category, transaction.amount)]

RECURSIVE ProfitLossLoop(_, _)
ProfitLossLoop(acc, txs) ==
    IF txs = <<>> THEN acc
    ELSE The({ProfitLossLoop(next, Tail(txs)) :
              next \in {ProfitLossStep(acc, Head(txs))}})

\* ProfitMargin without the test of total_income: the division, always.
ProfitMarginUnguarded(net_profit, total_income) ==
    FMul(FDiv(net_profit, total_income), FromInt(100))

\* (net_profit / total_income * 100) if total_income > 0 else 0
ProfitMargin(net_profit, total_income) ==
    IF FPos(total_income)
    THEN FMul(FDiv(net_profit, total_income), FromInt(100))
    ELSE FZero

\* The report over the transactions the query returned.
ProfitLossReport(txs, start_date, end_date) ==
    The({The({
        [period |-> [start_date |-> start_date, end_date |-> end_date],
         total_income |-> acc.total_income,
         total_expenses |-> acc.total_expenses,
         net_profit |-> net_profit,
         profit_margin |-> ProfitMargin(net_profit, acc.total_income),
         income_by_category |-> acc.income_by_category,
         expense_by_category |-> acc.expense_by_category,
         transaction_count |-> Len(txs)] :
            net_profit \in {FSub(acc.total_income, acc.total_expenses)}}) :
            acc \in {ProfitLossLoop(
                        [total_income |-> FZero, total_expenses |-> FZero,
                         income_by_category |-> EmptyDict,
                         expense_by_category |-> EmptyDict], txs)}})

get_profit_loss_report(role, start_date, end_date, now) ==
    /\ request = NoRequest
    /\ UNCHANGED apiVars
    /\ request' = [endpoint |-> "profit_loss", role |-> role,
                   start_date |-> start_date, end_date |-> end_date]
    /\ UNCHANGED <<transactions, nextId>>
    /\ IF role \notin CanViewReports
       THEN /\ response' = Forbidden
            /\ fetched' = <<>>
            /\ queries' = 0
       ELSE \E start \in {IF start_date.kind = "none"
                          THEN IsoDate(now - 30) ELSE start_date},
               end   \in {IF end_date.kind = "none"
                          THEN IsoDate(now) ELSE end_date} :
            \E gte \in {fromisoformat(start)}, lte \in {fromisoformat(end)} :
               IF Raised(gte) \/ Raised(lte)
               THEN /\ response' = ServerError
                    /\ fetched' = <<>>
                    /\ queries' = 0
               ELSE \* find({"date": {"$gte": ..., "$lte": ...}}), in the
                    \* store's order
                    \E txs \in {to_list(SelectSeq(transactions,
                                    LAMBDA t : gte.value <= t.date
                                               /\ t.date <= lte.value),
                                    FetchCap)} :
                    \E report \in {ProfitLossReport(txs, start, end)} :
                       /\ fetched' = txs
                       /\ queries' = 1
                       /\ response' = IF Raised(report.profit_margin)
                                      THEN ServerError ELSE Ok(report)

(***************************************************************************)
(* GET /reports/balance-sheet                                              *)
(***************************************************************************)
\* One turn of the loop over the transactions.
BalanceSheetStep(acc, transaction) ==
    IF transaction.type = "income"
    THEN [acc EXCEPT
            !.total_income = FAdd(@, transaction.amount),
            !.assets = DictAdd(@, transaction.category, transaction.amount)]
    ELSE [acc EXCEPT
            !.total_expenses = FAdd(@, transaction.amount),
            !.liabilities =
                DictAdd(@, transaction.category, transaction.amount)]

RECURSIVE BalanceSheetLoop(_, _)
BalanceSheetLoop(acc, txs) ==
    IF txs = <<>> THEN acc
    ELSE IF Len(txs) = 1 THEN BalanceSheetStep(acc, txs[1])
    ELSE The({The({BalanceSheetLoop(
                       first, SubSeq(txs, half + 1, Len(txs))) :
                   first \in {BalanceSheetLoop(acc, SubSeq(txs, 1, half))}}) :
              half \in {Len(txs) \div 2}})

\* total_income == (total_expenses + equity)
BalanceCheck(total_income, total_expenses, equity) ==
    total_income = FAdd(total_expenses, equity)

BalanceSheetReport(txs) ==
    The({The({
        [assets |-> [total |-> acc.total_income, by_category |-> acc.assets],
         liabilities |->
            [total |-> acc.total_expenses, by_category |-> acc.liabilities],
         equity |-> equity,
         balance_check |->
            BalanceCheck(acc.total_income, acc.total_expenses, equity)] :
            equity \in {FSub(acc.total_income, acc.total_expenses)}}) :
            acc \in {BalanceSheetLoop(
                        [total_income |-> FZero, total_expenses |-> FZero,
                         assets |-> EmptyDict, liabilities |-> EmptyDict],
                        txs)}})

\* get_balance_sheet_report with a cursor that takes the documents it
\* returns out of the collection.
get_balance_sheet_report_consuming(role) ==
    /\ request = NoRequest
    /\ UNCHANGED apiVars
    /\ request' = [endpoint |-> "balance_sheet", role |-> role]
    /\ nextId' = nextId
    /\ IF role \notin CanViewReports
       THEN /\ response' = Forbidden
            /\ fetched' = <<>>
            /\ queries' = 0
            /\ transactions' = transactions
       ELSE \E txs \in {to_list(transactions, FetchCap)} :
               /\ fetched' = txs
               /\ queries' = 1
               /\ transactions' = <<>>
               /\ response' = Ok(BalanceSheetReport(txs))

get_balance_sheet_report(role) ==
    /\ request = NoRequest
    /\ UNCHANGED apiVars
    /\ request' = [endpoint |-> "balance_sheet", role |-> role]
    /\ UNCHANGED <<transactions, nextId>>
    /\ IF role \notin CanViewReports
       THEN /\ response' = Forbidden
            /\ fetched' = <<>>
            /\ queries' = 0
       ELSE \E txs \in {to_list(transactions, FetchCap)} :
               /\ fetched' = txs
               /\ queries' = 1
               /\ response' = Ok(BalanceSheetReport(txs))

(***************************************************************************)
(* GET /reports/cash-flow                                                  *)
(***************************************************************************)
\* The period key of a date: strftime by the period, and the year for
\* every period that is not daily, weekly or monthly.
PeriodKey(period, date) ==
    IF period = "daily"
    THEN FmtY(date) \o Dash \o Fmtm(date) \o Dash \o Fmtd(date)
    ELSE IF period = "weekly"
    THEN FmtY(date) \o Dash \o CharW \o FmtU(date)
    ELSE IF period = "monthly"
    THEN FmtY(date) \o Dash \o Fmtm(date)
    ELSE FmtY(date)

\* current_period = None (no key is the empty string, which is as false).
NoPeriod == <<>>

\* FlushPeriod with the running balance set to the period's net flow, not
\* raised by it.
FlushPeriodNoCarry(st) ==
    The({[st EXCEPT
            !.running_balance = net_flow,
            !.cash_flow = Append(@,
                [period |-> st.current_period,
                 income |-> st.period_income,
                 expenses |-> st.period_expenses,
                 net_flow |-> net_flow,
                 running_balance |-> net_flow])] :
         net_flow \in {FSub(st.period_income, st.period_expenses)}})

\* The bucket of the period that ends, appended with the running balance.
FlushPeriod(st) ==
    The({The({[st EXCEPT
            !.running_balance = running_balance,
            !.cash_flow = Append(@,
                [period |-> st.current_period,
                 income |-> st.period_income,
                 expenses |-> st.period_expenses,
                 net_flow |-> net_flow,
                 running_balance |-> running_balance])] :
         running_balance \in {FAdd(st.running_balance, net_flow)}}) :
         net_flow \in {FSub(st.period_income, st.period_expenses)}})

\* One turn of the loop over the transactions.
CashFlowStep(st, transaction, period) ==
    The({The({
        IF transaction.type = "income"
        THEN [started EXCEPT !.period_income = FAdd(@, transaction.amount)]
        ELSE [started EXCEPT !.period_expenses = FAdd(@, transaction.amount)] :
            started \in
               {IF st.current_period # period_key
                THEN [(IF st.current_period # NoPeriod
                       THEN FlushPeriod(st) ELSE st)
                        EXCEPT !.current_period = period_key,
                               !.period_income = FZero,
                               !.period_expenses = FZero]
                ELSE st}}) :
            period_key \in {PeriodKey(period, transaction.date)}})

RECURSIVE CashFlowLoop(_, _, _)
CashFlowLoop(st, txs, period) ==
    IF txs = <<>> THEN st
    ELSE IF Len(txs) = 1 THEN CashFlowStep(st, txs[1], period)
    ELSE The({The({CashFlowLoop(
                       first, SubSeq(txs, half + 1, Len(txs)), period) :
                   first \in {CashFlowLoop(
                                  st, SubSeq(txs, 1, half), period)}}) :
              half \in {Len(txs) \div 2}})

CashFlowReport(txs, period) ==
    The({The({
        [period_type |-> period,
         cash_flow |-> final.cash_flow,
         final_balance |-> final.running_balance,
         total_periods |-> Len(final.cash_flow)] :
            final \in {IF looped.current_period # NoPeriod
                       THEN FlushPeriod(looped) ELSE looped}}) :
            looped \in {CashFlowLoop(
                          [cash_flow |-> <<>>, running_balance |-> FZero,
                           current_period |-> NoPeriod,
                           period_income |-> FZero,
                           period_expenses |-> FZero], txs, period)}})

get_cash_flow_report(role, period) ==
    /\ request = NoRequest
    /\ UNCHANGED apiVars
    /\ request' = [endpoint |-> "cash_flow", role |-> role, period |-> period]
    /\ UNCHANGED <<transactions, nextId>>
    /\ IF role \notin CanViewReports
       THEN /\ response' = Forbidden
            /\ fetched' = <<>>
            /\ queries' = 0
       ELSE \E sorted_docs \in SortedByDate(transactions) :
            \E txs \in {to_list(sorted_docs, FetchCap)} :
               /\ fetched' = txs
               /\ queries' = 1
               /\ response' = Ok(CashFlowReport(txs, period))

(***************************************************************************)
(* GET /reports/trends                                                     *)
(***************************************************************************)
\* CanViewTrends with the auditor let in.
CanViewTrendsWithAuditor ==
    {ADMIN, DATA_ANALYST, FINANCIAL_MANAGER, AUDITOR}

CanViewTrends == {ADMIN, DATA_ANALYST, FINANCIAL_MANAGER}

\* One turn of the loop over the transactions.
TrendsStep(acc, transaction) ==
    The({The({
        [monthly_data |->
            [k \in DOMAIN acc.monthly_data \cup {month_key} |->
                IF k = month_key
                THEN IF transaction.type = "income"
                     THEN [month EXCEPT !.income = FAdd(@, amount)]
                     ELSE [month EXCEPT !.expenses = FAdd(@, amount)]
                ELSE acc.monthly_data[k]],
         category_trends |->
            [c \in DOMAIN acc.category_trends \cup {category} |->
                IF c = category THEN DictAdd(by_month, month_key, amount)
                ELSE acc.category_trends[c]]] :
            month \in {IF month_key \in DOMAIN acc.monthly_data
                       THEN acc.monthly_data[month_key]
                       ELSE [income |-> FZero, expenses |-> FZero]},
            by_month \in {IF category \in DOMAIN acc.category_trends
                          THEN acc.category_trends[category]
                          ELSE EmptyDict}}) :
            month_key \in {FmtY(transaction.date) \o Dash
                              \o Fmtm(transaction.date)},
            category \in {transaction.category},
            amount \in {transaction.amount}})

RECURSIVE TrendsLoop(_, _)
TrendsLoop(acc, txs) ==
    IF txs = <<>> THEN acc
    ELSE The({TrendsLoop(next, Tail(txs)) :
              next \in {TrendsStep(acc, Head(txs))}})

\* sorted(keys): the strings in ascending order.
RECURSIVE sorted(_)
sorted(keys) ==
    IF keys = {} THEN <<>>
    ELSE The({<<least>> \o sorted(keys \ {least}) :
              least \in {CHOOSE k \in keys :
                            \A o \in keys \ {k} : StrLess(k, o)}})

\* GrowthRate with the tie of two zero totals counted as a rise.
GrowthRateTieUp(prev_total, curr_total) ==
    IF prev_total # FZero
    THEN FMul(FDiv(FSub(curr_total, prev_total), FAbs(prev_total)),
              FromInt(100))
    ELSE IF ~FPos(FNeg(curr_total)) THEN FromInt(100) ELSE FromInt(-100)

\* The growth of a month's net total over the month before it.
GrowthRate(prev_total, curr_total) ==
    IF prev_total # FZero
    THEN FMul(FDiv(FSub(curr_total, prev_total), FAbs(prev_total)),
              FromInt(100))
    ELSE IF FPos(curr_total) THEN FromInt(100) ELSE FromInt(-100)

MonthTotal(monthly_data, month) ==
    FSub(monthly_data[month].income, monthly_data[month].expenses)

\* GrowthRates with the loop begun at range(2, ...): no entry for the
\* second month either.
GrowthRatesFromThird(monthly_data) ==
    The({[i \in 1..(Len(months) - 2) |->
            The({[month |-> months[i + 2],
                  growth_rate |-> GrowthRate(prev_total, curr_total),
                  net_profit |-> curr_total] :
                 prev_total \in {MonthTotal(monthly_data, months[i + 1])},
                 curr_total \in {MonthTotal(monthly_data, months[i + 2])}})] :
         months \in {sorted(DOMAIN monthly_data)}})

\* The loop for i in range(1, len(months)).
GrowthRates(monthly_data) ==
    The({[i \in 1..(Len(months) - 1) |->
            The({[month |-> months[i + 1],
                  growth_rate |-> GrowthRate(prev_total, curr_total),
                  net_profit |-> curr_total] :
                 prev_total \in {MonthTotal(monthly_data, months[i])},
                 curr_total \in {MonthTotal(monthly_data, months[i + 1])}})] :
         months \in {sorted(DOMAIN monthly_data)}})

TrendsReport(txs, twelve_months_ago, now) ==
    The({[monthly_data |-> acc.monthly_data,
          category_trends |-> acc.category_trends,
          growth_rates |-> GrowthRates(acc.monthly_data),
          analysis_period |-> [from |-> twelve_months_ago, to |-> now]] :
         acc \in {TrendsLoop(
                     [monthly_data |-> <<>>, category_trends |-> <<>>], txs)}})

get_financial_trends(role, now) ==
    /\ request = NoRequest
    /\ UNCHANGED apiVars
    /\ request' = [endpoint |-> "trends", role |-> role]
    /\ UNCHANGED <<transactions, nextId>>
    /\ IF role \notin CanViewTrends
       THEN /\ response' = Forbidden
            /\ fetched' = <<>>
            /\ queries' = 0
       ELSE \E twelve_months_ago \in {now - 365} :
            \E found \in {SelectSeq(transactions,
                              LAMBDA t : t.date >= twelve_months_ago)} :
            \E sorted_docs \in SortedByDate(found) :
            \E txs \in {to_list(sorted_docs, FetchCap)} :
            \E report \in {TrendsReport(txs, twelve_months_ago, now)} :
               /\ fetched' = txs
               /\ queries' = 1
               /\ response' =
                    IF \E i \in DOMAIN report.growth_rates :
                           Raised(report.growth_rates[i].growth_rate)
                    THEN ServerError ELSE Ok(report)

(***************************************************************************)
(* The client takes the response before it sends its next request.         *)
(***************************************************************************)
take_response ==
    /\ request # NoRequest
    /\ UNCHANGED apiVars
    /\ request' = NoRequest
    /\ response' = NoResponse
    /\ fetched' = <<>>
    /\ queries' = 0
    /\ UNCHANGED <<transactions, nextId>>

Next ==
    \/ \E role \in Roles, data \in TxInputs : create_transaction(role, data)
    \/ \E role \in Roles, range \in RangeInputs, now \in Clocks :
          get_profit_loss_report(role, range[1], range[2], now)
    \/ \E role \in Roles : get_balance_sheet_report(role)
    \/ \E role \in Roles, period \in PeriodInputs :
          get_cash_flow_report(role, period)
    \/ \E role \in Roles, now \in Clocks : get_financial_trends(role, now)
    \/ take_response

Spec == Init /\ [][Next]_vars

(***************************************************************************)
(* The account and transaction routes.  A handler runs up to each await on *)
(* the database in one step, so the calls of two clients interleave at the *)
(* awaits, as the coroutines of the event loop do.                         *)
(***************************************************************************)
ACCESS_TOKEN_EXPIRE_MINUTES == 30

\* timedelta(days=30), in minutes.
TrialMinutes == 30 * 24 * 60

\* HTTPException of status 401, 400, 404.
Unauthorized ==
    [status |-> 401, body |-> [detail |-> "Could not validate credentials"]]

BadRequest == [status |-> 400, body |-> [detail |-> "bad request"]]

NotFound == [status |-> 404, body |-> [detail |-> "not found"]]

\* The least number of a set of positive numbers, 0 for the empty set.
First(S) == IF S = {} THEN 0 ELSE CHOOSE i \in S : \A j \in S : i <= j

\* The place of the document that find_one, update_one and delete_one pick:
\* the first that matches, 0 when none does.
UserNamed(username) ==
    First({i \in 1..Len(users) : users[i].username = username})

UserWithId(id) == First({i \in 1..Len(users) : users[i].id = id})

\* delete_one on the i-th document.
Remove(docs, i) ==
    [k \in 1..(Len(docs) - 1) |-> IF k < i THEN docs[k] ELSE docs[k + 1]]

\* create_access_token(data={"sub": username}, expires_delta)
create_access_token(username, expires_delta) ==
    [sub |-> username, exp |-> clock + expires_delta]

\* User(**user): the document without its password.
UserModel(user) == [f \in DOMAIN user \ {"password"} |-> user[f]]

\* get_current_user: the user of the token's name, or the 401 for a token
\* that is expired or names nobody in db.users.
get_current_user(token) ==
    IF token.exp <= clock THEN Raise("PyJWTError")
    ELSE IF UserNamed(token.sub) = 0 THEN Raise("credentials_exception")
    ELSE UserModel(users[UserNamed(token.sub)])

\* An entry attributed to the super admin, whoever acts.
ActivityLogOfAdmin(user_id, action, details) ==
    [user_id |-> 0, action |-> action, details |-> details,
     timestamp |-> clock]

\* ActivityLog(user_id, action, details).dict(); its id is never read.
ActivityLog(user_id, action, details) ==
    [user_id |-> user_id, action |-> action, details |-> details,
     timestamp |-> clock]

\* A call being served: the route, what the client sent, the handler's
\* current_user and locals, the await it stands at, its response, and the
\* writes it has made.
Call(op, args, current_user, pc, local) ==
    [op |-> op, args |-> args, current_user |-> current_user, pc |-> pc,
     local |-> local, response |-> NoResponse, effects |-> <<>>]

\* The call ends with the response.
Returned(call, result) ==
    [call EXCEPT !.pc = "done", !.response = result]

\* The call has made the write and stands at the next await.
Wrote(call, effect, pc) ==
    [call EXCEPT !.pc = pc, !.effects = Append(@, effect)]

\* The tokens a client can present: those that login has returned.
Tokens == {grant.access_token : grant \in issued}

\* The client may make a call: it has none, or has the response of its
\* last.
MayCall(c) == calls[c].pc \in {"idle", "done"}

\* The handler answers at once: the response, and no await on the store.
Refuse(c, call, result) ==
    /\ calls' = [calls EXCEPT ![c] = Returned(call, result)]
    /\ budget' = budget

\* The handler goes on to its first await on the store.
Begin(c, call) ==
    /\ budget > 0
    /\ calls' = [calls EXCEPT ![c] = call]
    /\ budget' = budget - 1

\* The call of client c stands at the await pc of the route op.
At(c, op, pc) == calls[c].op = op /\ calls[c].pc = pc

(***************************************************************************)
(* POST /auth/login                                                        *)
(***************************************************************************)
\* find_one by the username, and verify_password.
call_login(c, user_credentials) ==
    /\ MayCall(c)
    /\ \E i \in {UserNamed(user_credentials.username)} :
          IF i = 0
          THEN Refuse(c, Call("login", user_credentials, None, "find_one",
                              None), Unauthorized)
          ELSE IF ~verify_password(user_credentials.password,
                                   users[i].password)
          THEN Refuse(c, Call("login", user_credentials, None, "find_one",
                              None), Unauthorized)
          ELSE Begin(c, Call("login", user_credentials, None, "update_one",
                             [user |-> users[i],
                              access_token |-> create_access_token(
                                  users[i].username,
                                  ACCESS_TOKEN_EXPIRE_MINUTES)]))
    /\ UNCHANGED <<users, activity_logs, clock, issued>>
    /\ UNCHANGED <<transactions, nextId, request, fetched, queries, response>>

\* update_one: last_login of the user of the name, if there is one.
login_update_one(c) ==
    /\ At(c, "login", "update_one")
    /\ \E i \in {UserNamed(calls[c].args.username)} :
          users' = IF i = 0 THEN users
                   ELSE [users EXCEPT ![i].last_login = clock]
    /\ calls' = [calls EXCEPT ![c] =
                    Wrote(@, "users.update_one", "log_activity")]
    /\ UNCHANGED <<activity_logs, clock, issued, budget>>
    /\ UNCHANGED <<transactions, nextId, request, fetched, queries, response>>

\* log_activity, and the response with the token.
login_log_activity(c) ==
    /\ At(c, "login", "log_activity")
    /\ activity_logs' = Append(activity_logs,
           ActivityLog(calls[c].local.user.id, "login", "success"))
    /\ issued' = issued \cup {[access_token |-> calls[c].local.access_token,
                              user_id |-> calls[c].local.user.id]}
    /\ calls' = [calls EXCEPT ![c] = Returned(
           Wrote(@, "activity_logs.insert_one", "done"),
           Ok([access_token |-> calls[c].local.access_token,
               token_type |-> "bearer",
               user_info |-> [id |-> calls[c].local.user.id,
                              username |-> calls[c].local.user.username,
                              full_name |-> calls[c].local.user.full_name,
                              email |-> calls[c].local.user.email,
                              role |-> calls[c].local.user.role]]))]
    /\ UNCHANGED <<users, clock, budget>>
    /\ UNCHANGED <<transactions, nextId, request, fetched, queries, response>>

(***************************************************************************)
(* POST /auth/register                                                     *)
(***************************************************************************)
\* get_current_user and the role check.
call_register(c, token, user_data) ==
    /\ MayCall(c)
    /\ \E current_user \in {get_current_user(token)} :
          IF Raised(current_user)
          THEN Refuse(c, Call("register", user_data, None, "auth", None),
                      Unauthorized)
          ELSE IF current_user.role # ADMIN
          THEN Refuse(c, Call("register", user_data, current_user, "auth",
                              None), Forbidden)
          ELSE Begin(c, Call("register", user_data, current_user,
                             "find_one", None))
    /\ UNCHANGED <<users, activity_logs, clock, issued>>
    /\ UNCHANGED <<transactions, nextId, request, fetched, queries, response>>

\* find_one by the username or the email; then the new user, with its id,
\* hashed password and trial.
register_find_one(c) ==
    /\ At(c, "register", "find_one")
    /\ \E user_data \in {calls[c].args} :
          IF \E i \in 1..Len(users) :
                \/ users[i].username = user_data.username
                \/ users[i].email = user_data.email
          THEN /\ calls' = [calls EXCEPT ![c] = Returned(@, BadRequest)]
               /\ nextId' = nextId
          ELSE /\ \E new_user \in {User(nextId, user_data.username,
                                       user_data.email, user_data.full_name,
                                       user_data.role, clock)} :
                     calls' = [calls EXCEPT ![c] =
                        [@ EXCEPT !.pc = "insert_one",
                                  !.local =
                           [new_user |-> new_user,
                            user_dict |->
                               [WithPassword(new_user,
                                    get_password_hash(user_data.password))
                                  EXCEPT !.trial_expires_at =
                                     IF user_data.role # ADMIN
                                     THEN clock + TrialMinutes
                                     ELSE None]]]]
               /\ nextId' = nextId + 1
    /\ UNCHANGED <<users, activity_logs, clock, issued, budget>>
    /\ UNCHANGED <<transactions, request, fetched, queries, response>>

register_insert_one(c) ==
    /\ At(c, "register", "insert_one")
    /\ users' = Append(users, calls[c].local.user_dict)
    /\ calls' = [calls EXCEPT ![c] =
                    Wrote(@, "users.insert_one", "log_activity")]
    /\ UNCHANGED <<activity_logs, clock, issued, budget>>
    /\ UNCHANGED <<transactions, nextId, request, fetched, queries, response>>

register_log_activity(c) ==
    /\ At(c, "register", "log_activity")
    /\ activity_logs' = Append(activity_logs,
           ActivityLog(calls[c].current_user.id, "register",
                       calls[c].args.username))
    /\ calls' = [calls EXCEPT ![c] = Returned(
           Wrote(@, "activity_logs.insert_one", "done"),
           Ok(calls[c].local.new_user))]
    /\ UNCHANGED <<users, clock, issued, budget>>
    /\ UNCHANGED <<transactions, nextId, request, fetched, queries, response>>

(***************************************************************************)
(* GET /auth/me                                                            *)
(***************************************************************************)
call_get_current_user_info(c, token) ==
    /\ MayCall(c)
    /\ \E current_user \in {get_current_user(token)} :
          IF Raised(current_user)
          THEN Refuse(c, Call("get_current_user_info", token, None, "auth",
                              None), Unauthorized)
          ELSE Refuse(c, Call("get_current_user_info", token, current_user,
                              "auth", None), Ok(current_user))
    /\ UNCHANGED <<users, activity_logs, clock, issued>>
    /\ UNCHANGED <<transactions, nextId, request, fetched, queries, response>>

(***************************************************************************)
(* DELETE /users/{user_id}                                                 *)
(***************************************************************************)
\* get_current_user, the role check and the check of the own account.
call_delete_user(c, token, user_id) ==
    /\ MayCall(c)
    /\ \E current_user \in {get_current_user(token)} :
          IF Raised(current_user)
          THEN Refuse(c, Call("delete_user", user_id, None, "auth", None),
                      Unauthorized)
          ELSE IF current_user.role # ADMIN
          THEN Refuse(c, Call("delete_user", user_id, current_user, "auth",
                              None), Forbidden)
          ELSE IF user_id = current_user.id
          THEN Refuse(c, Call("delete_user", user_id, current_user, "auth",
                              None), BadRequest)
          ELSE Begin(c, Call("delete_user", user_id, current_user,
                             "delete_one", None))
    /\ UNCHANGED <<users, activity_logs, clock, issued>>
    /\ UNCHANGED <<transactions, nextId, request, fetched, queries, response>>

delete_user_delete_one(c) ==
    /\ At(c, "delete_user", "delete_one")
    /\ \E i \in {UserWithId(calls[c].args)} :
          IF i = 0
          THEN /\ calls' = [calls EXCEPT ![c] = Returned(@, NotFound)]
               /\ users' = users
          ELSE /\ calls' = [calls EXCEPT ![c] =
                               Wrote(@, "users.delete_one", "log_activity")]
               /\ users' = Remove(users, i)
    /\ UNCHANGED <<activity_logs, clock, issued, budget>>
    /\ UNCHANGED <<transactions, nextId, request, fetched, queries, response>>

delete_user_log_activity(c) ==
    /\ At(c, "delete_user", "log_activity")
    /\ activity_logs' = Append(activity_logs,
           ActivityLog(calls[c].current_user.id, "delete_user",
                       calls[c].args))
    /\ calls' = [calls EXCEPT ![c] = Returned(
           Wrote(@, "activity_logs.insert_one", "done"),
           Ok([message |-> "deleted"]))]
    /\ UNCHANGED <<users, clock, issued, budget>>
    /\ UNCHANGED <<transactions, nextId, request, fetched, queries, response>>

(***************************************************************************)
(* POST /maintenance/cleanup-expired-users                                 *)
(***************************************************************************)
call_manual_cleanup_expired_users(c, token) ==
    /\ MayCall(c)
    /\ \E current_user \in {get_current_user(token)} :
          IF Raised(current_user)
          THEN Refuse(c, Call("manual_cleanup_expired_users", token, None,
                              "auth", None), Unauthorized)
          ELSE IF current_user.role # ADMIN
          THEN Refuse(c, Call("manual_cleanup_expired_users", token,
                              current_user, "auth", None), Forbidden)
          ELSE Begin(c, Call("manual_cleanup_expired_users", token,
                             current_user, "find", None))
    /\ UNCHANGED <<users, activity_logs, clock, issued>>
    /\ UNCHANGED <<transactions, nextId, request, fetched, queries, response>>

\* {"trial_expires_at": {"$lt": current_time}, "role": {"$ne": ADMIN}}:
\* $lt matches no document whose trial_expires_at is None.
Expired(user, current_time) ==
    /\ user.trial_expires_at # None
    /\ user.trial_expires_at < current_time
    /\ user.role # ADMIN

\* The response of the cleanup.
CleanedUp(deleted_users, current_time) ==
    Ok([deleted_count |-> Len(deleted_users),
        deleted_users |-> deleted_users, cleanup_time |-> current_time])

\* find(...).to_list(1000); with no expired user the loop is over.
cleanup_find(c) ==
    /\ At(c, "manual_cleanup_expired_users", "find")
    /\ \E expired_users \in
             {to_list(SelectSeq(users, LAMBDA u : Expired(u, clock)),
                      FetchCap)} :
          calls' = [calls EXCEPT ![c] =
              IF expired_users = <<>>
              THEN Returned(@, CleanedUp(<<>>, clock))
              ELSE [@ EXCEPT !.pc = "log_activity",
                             !.local = [current_time |-> clock,
                                        expired_users |-> expired_users,
                                        deleted_users |-> <<>>]]]
    /\ UNCHANGED <<users, activity_logs, clock, issued, budget>>
    /\ UNCHANGED <<transactions, nextId, request, fetched, queries, response>>

\* log_activity for the next user of the list, before it is deleted.
cleanup_log_activity(c) ==
    /\ At(c, "manual_cleanup_expired_users", "log_activity")
    /\ activity_logs' = Append(activity_logs,
           ActivityLog(calls[c].current_user.id, "cleanup",
                       Head(calls[c].local.expired_users).username))
    /\ calls' = [calls EXCEPT ![c] =
                    Wrote(@, "activity_logs.insert_one", "delete_one")]
    /\ UNCHANGED <<users, clock, issued, budget>>
    /\ UNCHANGED <<transactions, nextId, request, fetched, queries, response>>

\* delete_one by the id of that user, whatever it deletes; then the next
\* user of the list, or the response.
cleanup_delete_one(c) ==
    /\ At(c, "manual_cleanup_expired_users", "delete_one")
    /\ \E i \in {UserWithId(Head(calls[c].local.expired_users).id)} :
          users' = IF i = 0 THEN users ELSE Remove(users, i)
    /\ \E deleted_users \in
             {Append(calls[c].local.deleted_users,
                     Head(calls[c].local.expired_users).username)} :
          calls' = [calls EXCEPT ![c] =
              IF Tail(calls[c].local.expired_users) = <<>>
              THEN Returned(Wrote(@, "users.delete_one", "done"),
                            CleanedUp(deleted_users,
                                      calls[c].local.current_time))
              ELSE [Wrote(@, "users.delete_one", "log_activity")
                       EXCEPT !.local.expired_users = Tail(@),
                              !.local.deleted_users = deleted_users]]
    /\ UNCHANGED <<activity_logs, clock, issued, budget>>
    /\ UNCHANGED <<transactions, nextId, request, fetched, queries, response>>

(***************************************************************************)
(* POST /transactions, PUT and DELETE /transactions/{transaction_id}       *)
(***************************************************************************)
\* The role list of delete_transaction with the one of create_transaction.
CanDeleteTransactionsAsCreate == {ADMIN, ACCOUNTANT, FINANCIAL_MANAGER}

CanDeleteTransactions == {ADMIN, ACCOUNTANT}

\* TransactionCreate: any string as type, any float as amount.
TransactionCreate(type, amount, category, description, date) ==
    [type |-> type, amount |-> FromInt(amount), category |-> category,
     description |-> description, date |-> date]

\* Transaction(**transaction_data.dict(), created_by=current_user.id) with
\* its fresh id and the time.
TransactionBy(data, id, created_by, created_at) ==
    [id |-> id, type |-> data.type, amount |-> data.amount,
     category |-> data.category, description |-> data.description,
     date |-> data.date, created_by |-> created_by,
     created_at |-> created_at]

\* A filter that falls back on the last transaction when none has the id.
TransactionWithIdOrLast(id) ==
    IF \E i \in 1..Len(transactions) : transactions[i].id = id
    THEN First({i \in 1..Len(transactions) : transactions[i].id = id})
    ELSE Len(transactions)

\* The place of the first transaction of the id, 0 when there is none.
TransactionWithId(id) ==
    First({i \in 1..Len(transactions) : transactions[i].id = id})

\* A replacement of the document, where $set is: the fields that the data
\* do not name are lost, but for the id.
SetReplacing(doc, data) ==
    [f \in DOMAIN doc \cup DOMAIN data |->
        IF f \in DOMAIN data THEN data[f]
        ELSE IF f = "id" THEN doc[f] ELSE None]

\* {"$set": data} on the document.
Set(doc, data) ==
    [f \in DOMAIN doc \cup DOMAIN data |->
        IF f \in DOMAIN data THEN data[f] ELSE doc[f]]

\* The calls that are about to insert a transaction.
Inserting ==
    {c \in Clients : calls[c].op = "create_transaction"
                     /\ calls[c].pc = "insert_one"}

\* get_current_user, the role check, and the new transaction.
call_create_transaction(c, token, transaction_data) ==
    /\ MayCall(c)
    /\ \E current_user \in {get_current_user(token)} :
          IF Raised(current_user)
          THEN /\ Refuse(c, Call("create_transaction", transaction_data,
                                 None, "auth", None), Unauthorized)
               /\ nextId' = nextId
          ELSE IF current_user.role \notin CanWriteTransactions
          THEN /\ Refuse(c, Call("create_transaction", transaction_data,
                                 current_user, "auth", None), Forbidden)
               /\ nextId' = nextId
          ELSE /\ Len(transactions) + Cardinality(Inserting) < MaxTx
               /\ Begin(c, Call("create_transaction", transaction_data,
                                current_user, "insert_one",
                                [transaction |-> TransactionBy(
                                    transaction_data, nextId,
                                    current_user.id, clock)]))
               /\ nextId' = nextId + 1
    /\ UNCHANGED <<users, activity_logs, clock, issued>>
    /\ UNCHANGED <<transactions, request, fetched, queries, response>>

create_transaction_insert_one(c) ==
    /\ At(c, "create_transaction", "insert_one")
    /\ transactions' = Append(transactions, calls[c].local.transaction)
    /\ calls' = [calls EXCEPT ![c] =
                    Wrote(@, "transactions.insert_one", "log_activity")]
    /\ UNCHANGED <<users, activity_logs, clock, issued, budget>>
    /\ UNCHANGED <<nextId, request, fetched, queries, response>>

create_transaction_log_activity(c) ==
    /\ At(c, "create_transaction", "log_activity")
    /\ activity_logs' = Append(activity_logs,
           ActivityLog(calls[c].current_user.id, "create_transaction",
                       calls[c].local.transaction.amount))
    /\ calls' = [calls EXCEPT ![c] = Returned(
           Wrote(@, "activity_logs.insert_one", "done"),
           Ok(calls[c].local.transaction))]
    /\ UNCHANGED <<users, clock, issued, budget>>
    /\ UNCHANGED <<transactions, nextId, request, fetched, queries, response>>

\* get_current_user and the role check.
call_update_transaction(c, token, transaction_id, transaction_data) ==
    /\ MayCall(c)
    /\ \E current_user \in {get_current_user(token)},
          args \in {[transaction_id |-> transaction_id,
                     transaction_data |-> transaction_data]} :
          IF Raised(current_user)
          THEN Refuse(c, Call("update_transaction", args, None, "auth",
                              None), Unauthorized)
          ELSE IF current_user.role \notin CanWriteTransactions
          THEN Refuse(c, Call("update_transaction", args, current_user,
                              "auth", None), Forbidden)
          ELSE Begin(c, Call("update_transaction", args, current_user,
                             "update_one", None))
    /\ UNCHANGED <<users, activity_logs, clock, issued>>
    /\ UNCHANGED <<transactions, nextId, request, fetched, queries, response>>

\* update_one: $set of the request's fields on the transaction of the id.
update_transaction_update_one(c) ==
    /\ At(c, "update_transaction", "update_one")
    /\ \E i \in {TransactionWithId(calls[c].args.transaction_id)} :
          IF i = 0
          THEN /\ calls' = [calls EXCEPT ![c] = Returned(@, NotFound)]
               /\ transactions' = transactions
          ELSE /\ calls' = [calls EXCEPT ![c] =
                      Wrote(@, "transactions.update_one", "find_one")]
               /\ transactions' = [transactions EXCEPT ![i] =
                      Set(@, calls[c].args.transaction_data)]
    /\ UNCHANGED <<users, activity_logs, clock, issued, budget>>
    /\ UNCHANGED <<nextId, request, fetched, queries, response>>

\* find_one: the transaction of the id as it is now; the local holds the
\* document found, or nothing for None.
update_transaction_find_one(c) ==
    /\ At(c, "update_transaction", "find_one")
    /\ \E i \in {TransactionWithId(calls[c].args.transaction_id)} :
          calls' = [calls EXCEPT ![c] =
              [@ EXCEPT !.pc = "log_activity",
                        !.local = [updated_transaction |->
                            IF i = 0 THEN <<>> ELSE <<transactions[i]>>]]]
    /\ UNCHANGED <<users, activity_logs, clock, issued, budget>>
    /\ UNCHANGED <<transactions, nextId, request, fetched, queries, response>>

\* log_activity; then Transaction(**updated_transaction), a TypeError when
\* find_one found nothing.
update_transaction_log_activity(c) ==
    /\ At(c, "update_transaction", "log_activity")
    /\ activity_logs' = Append(activity_logs,
           ActivityLog(calls[c].current_user.id, "update_transaction",
                       calls[c].args.transaction_id))
    /\ calls' = [calls EXCEPT ![c] = Returned(
           Wrote(@, "activity_logs.insert_one", "done"),
           IF calls[c].local.updated_transaction = <<>> THEN ServerError
           ELSE Ok(Head(calls[c].local.updated_transaction)))]
    /\ UNCHANGED <<users, clock, issued, budget>>
    /\ UNCHANGED <<transactions, nextId, request, fetched, queries, response>>

\* get_current_user and the role check.
call_delete_transaction(c, token, transaction_id) ==
    /\ MayCall(c)
    /\ \E current_user \in {get_current_user(token)} :
          IF Raised(current_user)
          THEN Refuse(c, Call("delete_transaction", transaction_id, None,
                              "auth", None), Unauthorized)
          ELSE IF current_user.role \notin CanDeleteTransactions
          THEN Refuse(c, Call("delete_transaction", transaction_id,
                              current_user, "auth", None), Forbidden)
          ELSE Begin(c, Call("delete_transaction", transaction_id,
                             current_user, "delete_one", None))
    /\ UNCHANGED <<users, activity_logs, clock, issued>>
    /\ UNCHANGED <<transactions, nextId, request, fetched, queries, response>>

delete_transaction_delete_one(c) ==
    /\ At(c, "delete_transaction", "delete_one")
    /\ \E i \in {TransactionWithId(calls[c].args)} :
          IF i = 0
          THEN /\ calls' = [calls EXCEPT ![c] = Returned(@, NotFound)]
               /\ transactions' = transactions
          ELSE /\ calls' = [calls EXCEPT ![c] =
                      Wrote(@, "transactions.delete_one", "log_activity")]
               /\ transactions' = Remove(transactions, i)
    /\ UNCHANGED <<users, activity_logs, clock, issued, budget>>
    /\ UNCHANGED <<nextId, request, fetched, queries, response>>

delete_transaction_log_activity(c) ==
    /\ At(c, "delete_transaction", "log_activity")
    /\ activity_logs' = Append(activity_logs,
           ActivityLog(calls[c].current_user.id, "delete_transaction",
                       calls[c].args))
    /\ calls' = [calls EXCEPT ![c] = Returned(
           Wrote(@, "activity_logs.insert_one", "done"),
           Ok([message |-> "deleted"]))]
    /\ UNCHANGED <<users, clock, issued, budget>>
    /\ UNCHANGED <<transactions, nextId, request, fetched, queries, response>>

(***************************************************************************)
(* The account routes, from startup.                                       *)
(***************************************************************************)
UserLogin(username, password) ==
    [username |-> username, password |-> password]

UserCreate(username, email, full_name, password, role) ==
    [username |-> username, email |-> email, full_name |-> full_name,
     password |-> password, role |-> role]

\* The bodies of POST /auth/login: the super admin's credentials, a wrong
\* password, and the credentials of users that may be registered.
LoginInputs ==
    {UserLogin("Nasser7A321", "@Nasser7Ali321@"),
     UserLogin("Nasser7A321", "guess"),
     UserLogin("bob", "b0b"),
     UserLogin("amy", "4my")}

\* The bodies of POST /auth/register.
RegisterInputs ==
    {UserCreate("bob", "bob@system.com", "Bob", "b0b", VIEWER),
     UserCreate("amy", "amy@system.com", "Amy", "4my", ADMIN)}

\* The times the clock is read at after startup: when the trials of the
\* first users, and their tokens, have expired.
Instants == {TrialMinutes + 1}

\* The clock reaches a later instant.
advance(t) ==
    /\ t > clock
    /\ clock' = t
    /\ UNCHANGED <<users, activity_logs, calls, issued, budget>>
    /\ UNCHANGED <<transactions, nextId, request, fetched, queries, response>>

\* The client of the runs that serve one call at a time.
Alone == {1}

AccountsNext ==
    \/ \E c \in Alone, user_credentials \in LoginInputs :
          call_login(c, user_credentials)
    \/ \E c \in Alone : login_update_one(c)
    \/ \E c \in Alone : login_log_activity(c)
    \/ \E c \in Alone, token \in Tokens, user_data \in RegisterInputs :
          call_register(c, token, user_data)
    \/ \E c \in Alone : register_find_one(c)
    \/ \E c \in Alone : register_insert_one(c)
    \/ \E c \in Alone : register_log_activity(c)
    \/ \E c \in Alone, token \in Tokens :
          call_get_current_user_info(c, token)
    \/ \E c \in Alone, token \in Tokens, user_id \in 0..(nextId - 1) :
          call_delete_user(c, token, user_id)
    \/ \E c \in Alone : delete_user_delete_one(c)
    \/ \E c \in Alone : delete_user_log_activity(c)
    \/ \E c \in Alone, token \in Tokens :
          call_manual_cleanup_expired_users(c, token)
    \/ \E c \in Alone : cleanup_find(c)
    \/ \E c \in Alone : cleanup_log_activity(c)
    \/ \E c \in Alone : cleanup_delete_one(c)
    \/ \E t \in Instants : advance(t)

AccountsSpec == Init /\ [][AccountsNext]_vars

RaceLogins ==
    {UserLogin("Nasser7A321", "@Nasser7Ali321@"), UserLogin("amy", "4my")}

RaceNext ==
    \/ \E c \in Clients, user_credentials \in RaceLogins :
          call_login(c, user_credentials)
    \/ \E c \in Clients : login_update_one(c)
    \/ \E c \in Clients : login_log_activity(c)
    \/ \E c \in Clients, token \in Tokens, user_data \in RegisterInputs :
          call_register(c, token, user_data)
    \/ \E c \in Clients : register_find_one(c)
    \/ \E c \in Clients : register_insert_one(c)
    \/ \E c \in Clients : register_log_activity(c)
    \/ \E c \in Clients, token \in Tokens, user_id \in 0..(nextId - 1) :
          call_delete_user(c, token, user_id)
    \/ \E c \in Clients : delete_user_delete_one(c)
    \/ \E c \in Clients : delete_user_log_activity(c)

RaceSpec == Init /\ [][RaceNext]_vars

(***************************************************************************)
(* The transaction routes, once the super admin has registered a user of   *)
(* each of three roles and all four have logged in, at startup's time.     *)
(***************************************************************************)
\* The user as register stores it and login updates it.
Registered(id, username, role) ==
    [WithPassword(User(id, username, username, username, role, 0),
                  get_password_hash(username))
        EXCEPT !.trial_expires_at = TrialMinutes, !.last_login = 0]

LedgerUsers ==
    <<[create_super_admin[1] EXCEPT !.last_login = 0],
      Registered(1, "acc", ACCOUNTANT),
      Registered(2, "fay", FINANCIAL_MANAGER),
      Registered(3, "vic", VIEWER)>>

LedgerInit ==
    /\ transactions = <<>>
    /\ nextId = 4
    /\ request = NoRequest
    /\ fetched = <<>>
    /\ queries = 0
    /\ response = NoResponse
    /\ users = LedgerUsers
    /\ clock = 0
    /\ activity_logs =
          <<ActivityLog(0, "login", "success"),
            ActivityLog(0, "register", "acc"),
            ActivityLog(0, "register", "fay"),
            ActivityLog(0, "register", "vic"),
            ActivityLog(1, "login", "success"),
            ActivityLog(2, "login", "success"),
            ActivityLog(3, "login", "success")>>
    /\ calls = [c \in Clients |-> Idle]
    /\ issued = {[access_token |-> [sub |-> LedgerUsers[i].username,
                                     exp |-> ACCESS_TOKEN_EXPIRE_MINUTES],
                   user_id |-> LedgerUsers[i].id] : i \in 1..4}
    /\ budget = MaxLedgerCalls

\* The bodies of POST /transactions and PUT /transactions/{id}.
LedgerInputs ==
    {TransactionCreate("income", 1, "salary", "may", DayB),
     TransactionCreate("transfer", -1, "rent", "flat", DayA)}

LedgerNext ==
    \/ \E c \in Alone, token \in Tokens, data \in LedgerInputs :
          call_create_transaction(c, token, data)
    \/ \E c \in Alone : create_transaction_insert_one(c)
    \/ \E c \in Alone : create_transaction_log_activity(c)
    \/ \E c \in Alone, token \in Tokens, id \in {0} \cup 4..(nextId - 1),
          data \in LedgerInputs :
          call_update_transaction(c, token, id, data)
    \/ \E c \in Alone : update_transaction_update_one(c)
    \/ \E c \in Alone : update_transaction_find_one(c)
    \/ \E c \in Alone : update_transaction_log_activity(c)
    \/ \E c \in Alone, token \in Tokens, id \in {0} \cup 4..(nextId - 1) :
          call_delete_transaction(c, token, id)
    \/ \E c \in Alone : delete_transaction_delete_one(c)
    \/ \E c \in Alone : delete_transaction_log_activity(c)
    \/ \E c \in Alone, token \in Tokens, user_data \in RegisterInputs :
          call_register(c, token, user_data)
    \/ \E c \in Alone : register_find_one(c)
    \/ \E c \in Alone : register_insert_one(c)
    \/ \E c \in Alone : register_log_activity(c)

LedgerSpec == LedgerInit /\ [][LedgerNext]_vars

(***************************************************************************)
(* The transaction routes with two clients, whose calls interleave at the  *)
(* awaits, from the same state.                                            *)
(***************************************************************************)
\* The tokens of the accountant and the financial manager.
WriterTokens == {token \in Tokens : token.sub \in {"acc", "fay"}}

LedgerRaceNext ==
    \/ \E c \in Clients, token \in WriterTokens, data \in LedgerInputs :
          call_create_transaction(c, token, data)
    \/ \E c \in Clients : create_transaction_insert_one(c)
    \/ \E c \in Clients : create_transaction_log_activity(c)
    \/ \E c \in Clients, token \in WriterTokens, id \in 4..(nextId - 1),
          data \in LedgerInputs :
          call_update_transaction(c, token, id, data)
    \/ \E c \in Clients : update_transaction_update_one(c)
    \/ \E c \in Clients : update_transaction_find_one(c)
    \/ \E c \in Clients : update_transaction_log_activity(c)
    \/ \E c \in Clients, token \in WriterTokens, id \in 4..(nextId - 1) :
          call_delete_transaction(c, token, id)
    \/ \E c \in Clients : delete_transaction_delete_one(c)
    \/ \E c \in Clients : delete_transaction_log_activity(c)

LedgerRaceSpec == LedgerInit /\ [][LedgerRaceNext]_vars

(***************************************************************************)
(* The routes that write to the activity log, with two clients whose calls *)
(* interleave at the awaits, from a state where the users of the ledger    *)
(* have logged in and the accountant has created one transaction.          *)
(***************************************************************************)
AuditInit ==
    /\ transactions = <<TransactionBy(
                          TransactionCreate("income", 1, "salary", "may", DayB),
                          4, 1, 0)>>
    /\ nextId = 5
    /\ request = NoRequest
    /\ fetched = <<>>
    /\ queries = 0
    /\ response = NoResponse
    /\ users = LedgerUsers
    /\ clock = 0
    /\ activity_logs =
          <<ActivityLog(0, "login", "success"),
            ActivityLog(0, "register", "acc"),
            ActivityLog(0, "register", "fay"),
            ActivityLog(0, "register", "vic"),
            ActivityLog(1, "login", "success"),
            ActivityLog(2, "login", "success"),
            ActivityLog(3, "login", "success"),
            ActivityLog(1, "create_transaction", 1)>>
    /\ calls = [c \in Clients |-> Idle]
    /\ issued = {[access_token |-> [sub |-> LedgerUsers[i].username,
                                     exp |-> ACCESS_TOKEN_EXPIRE_MINUTES],
                   user_id |-> LedgerUsers[i].id] : i \in 1..4}
    /\ budget = MaxAuditCalls

\* The bodies of POST /auth/login: the viewer's password, and a wrong one.
AuditLogins == {UserLogin("vic", "vic"), UserLogin("vic", "guess")}

\* The tokens of the admin, the accountant and the viewer.
AuditTokens == {token \in Tokens : token.sub \in {"Nasser7A321", "acc", "vic"}}

\* The body of POST /auth/register.
AuditRegistrations ==
    {UserCreate("bob", "bob@system.com", "Bob", "b0b", VIEWER)}

\* The body of POST /transactions and PUT /transactions/{id}.
AuditInputs == {TransactionCreate("transfer", -1, "rent", "flat", DayA)}

AuditNext ==
    \/ \E c \in Clients, user_credentials \in AuditLogins :
          call_login(c, user_credentials)
    \/ \E c \in Clients : login_update_one(c)
    \/ \E c \in Clients : login_log_activity(c)
    \/ \E c \in Clients, token \in AuditTokens,
          user_data \in AuditRegistrations :
          call_register(c, token, user_data)
    \/ \E c \in Clients : register_find_one(c)
    \/ \E c \in Clients : register_insert_one(c)
    \/ \E c \in Clients : register_log_activity(c)
    \/ \E c \in Clients, token \in AuditTokens, user_id \in {0, 3, nextId} :
          call_delete_user(c, token, user_id)
    \/ \E c \in Clients : delete_user_delete_one(c)
    \/ \E c \in Clients : delete_user_log_activity(c)
    \/ \E c \in Clients, token \in AuditTokens, data \in AuditInputs :
          call_create_transaction(c, token, data)
    \/ \E c \in Clients : create_transaction_insert_one(c)
    \/ \E c \in Clients : create_transaction_log_activity(c)
    \/ \E c \in Clients, token \in AuditTokens, id \in {0} \cup 4..(nextId - 1),
          data \in AuditInputs :
          call_update_transaction(c, token, id, data)
    \/ \E c \in Clients : update_transaction_update_one(c)
    \/ \E c \in Clients : update_transaction_find_one(c)
    \/ \E c \in Clients : update_transaction_log_activity(c)
    \/ \E c \in Clients, token \in AuditTokens, id \in {0} \cup 4..(nextId - 1) :
          call_delete_transaction(c, token, id)
    \/ \E c \in Clients : delete_transaction_delete_one(c)
    \/ \E c \in Clients : delete_transaction_log_activity(c)

AuditSpec == AuditInit /\ [][AuditNext]_vars

(***************************************************************************)
(* The balance-sheet and cash-flow reports over stores of as many          *)
(* transactions as one query returns, and of one more.                     *)
(***************************************************************************)
\* FetchCap expenses of amount 0, one on each of the days after DayC.
ZeroExpenses ==
    [i \in 1..FetchCap |->
        Transaction(Payload("expense", 0, "rent", DayC + i), i)]

\* The stores: the expenses alone; with an income created last and dated
\* first; with an income created first and dated last; with both.
FullStores ==
    {ZeroExpenses,
     Append(ZeroExpenses,
            Transaction(Payload("income", 1, "salary", DayZ), FetchCap + 1)),
     <<Transaction(Payload("income", 1, "salary", DayC + FetchCap + 1),
                   FetchCap + 1)>> \o ZeroExpenses,
     <<Transaction(Payload("income", 2, "salary", DayC + FetchCap + 1),
                   FetchCap + 1)>> \o
        Append(ZeroExpenses,
               Transaction(Payload("income", 1, "salary", DayZ),
                           FetchCap + 2))}

FullStoreInit ==
    /\ transactions \in FullStores
    /\ nextId = FetchCap + 3
    /\ request = NoRequest
    /\ fetched = <<>>
    /\ queries = 0
    /\ response = NoResponse
    /\ ApiInit

FullStoreNext ==
    \/ \E role \in Roles : get_balance_sheet_report(role)
    \/ \E role \in Roles, period \in PeriodInputs :
          get_cash_flow_report(role, period)
    \/ take_response

FullStoreSpec == FullStoreInit /\ [][FullStoreNext]_vars

(***************************************************************************)
(* What the claims speak of.                                               *)
(***************************************************************************)
\* A request of the endpoint was answered with a report.
Reported(endpoint) == request.endpoint = endpoint /\ response.status = 200

\* The floats f[1], ..., f[k] added up from 0, in this order.
RECURSIVE SumTo(_, _)
SumTo(f, k) == IF k = 0 THEN FZero ELSE FAdd(SumTo(f, k - 1), f[k])

\* The amounts of the transactions txs added up from 0, in their order.
SumOf(txs) == SumTo([i \in 1..Len(txs) |-> txs[i].amount], Len(txs))

(***************************************************************************)
(* C1.  Cash flow: the running balance of the k-th bucket is the sum of    *)
(* the net flows of the buckets 1..k, each net flow being the bucket's     *)
(* income minus its expenses; final_balance is the last bucket's running   *)
(* balance; with no transaction the bucket list is empty, final_balance is *)
(* 0 and total_periods is 0.  For every period value of the request.       *)
(***************************************************************************)
C1_RunningBalanceIsPrefixSum ==
    Reported("cash_flow") =>
        LET body    == response.body
            buckets == body.cash_flow
            flows   == [i \in 1..Len(buckets) |-> buckets[i].net_flow]
        IN  /\ \A k \in 1..Len(buckets) :
                  /\ buckets[k].net_flow =
                        FSub(buckets[k].income, buckets[k].expenses)
                  /\ buckets[k].running_balance = SumTo(flows, k)
            /\ body.total_periods = Len(buckets)
            /\ body.final_balance =
                  IF buckets = <<>> THEN FZero
                  ELSE buckets[Len(buckets)].running_balance
            /\ fetched = <<>> => buckets = <<>>

\* A report of three buckets whose net flows are not 0.
C1_Witness ==
    /\ Reported("cash_flow")
    /\ Len(response.body.cash_flow) = 3
    /\ \A k \in 1..3 : response.body.cash_flow[k].net_flow # FZero
    /\ response.body.final_balance # response.body.cash_flow[3].net_flow

\* With no transaction: an empty report.
C1_WitnessEmpty ==
    /\ Reported("cash_flow")
    /\ transactions = <<>>
    /\ response.body.final_balance = FZero
    /\ response.body.total_periods = 0

\* The transactions of the store are all of a kind the report builders know.
KnownKinds ==
    \A i \in 1..Len(transactions) :
        transactions[i].type \in {"income", "expense"}

\* The transactions among txs that fall in the period of the key and are of
\* the kind.
InPeriod(txs, period, key, kind) ==
    SelectSeq(txs, LAMBDA t : PeriodKey(period, t.date) = key /\ t.type = kind)

(***************************************************************************)
(* C2.  Cash flow: the buckets are one for each distinct period key among  *)
(* the transactions, in chronological order, and no other; the income of a *)
(* bucket is the sum of the amounts of its period's income transactions,   *)
(* its expenses the sum of the amounts of its period's expense             *)
(* transactions.                                                           *)
(***************************************************************************)
C2_OneBucketPerPeriodWithItsSums ==
    Reported("cash_flow") =>
        LET buckets == response.body.cash_flow
            period  == request.period
            keys    == {PeriodKey(period, fetched[i].date) :
                            i \in 1..Len(fetched)}
        IN  /\ {buckets[k].period : k \in 1..Len(buckets)} = keys
            /\ Len(buckets) = Cardinality(keys)
            /\ \A i \in 1..Len(fetched), j \in 1..Len(fetched) :
                  \A k \in 1..Len(buckets), l \in 1..Len(buckets) :
                     /\ PeriodKey(period, fetched[i].date) = buckets[k].period
                     /\ PeriodKey(period, fetched[j].date) = buckets[l].period
                     /\ k < l
                     => fetched[i].date < fetched[j].date
            /\ \A k \in 1..Len(buckets) :
                  /\ buckets[k].income =
                        SumOf(InPeriod(fetched, period, buckets[k].period,
                                       "income"))
                  /\ buckets[k].expenses =
                        SumOf(InPeriod(fetched, period, buckets[k].period,
                                       "expense"))

\* The same, of a store whose transactions are all incomes and expenses.
C2_HoldsOfKnownKinds == KnownKinds => C2_OneBucketPerPeriodWithItsSums

\* A monthly report of two buckets, December and February, with no bucket
\* of the January between them, which has no transaction.
C2_WitnessKnownKinds ==
    /\ KnownKinds
    /\ Reported("cash_flow")
    /\ request.period = "monthly"
    /\ Len(response.body.cash_flow) = 2
    /\ response.body.cash_flow[1].period = FmtY(DayZ) \o Dash \o Fmtm(DayZ)
    /\ response.body.cash_flow[2].period = FmtY(DayC) \o Dash \o Fmtm(DayC)

\* The transactions of the store of the kind whose date is in the range that
\* the profit and loss report names as its period.
InRangeOfKind(range, kind) ==
    SelectSeq(transactions,
              LAMBDA t : /\ range.start_date.t <= t.date
                         /\ t.date <= range.end_date.t
                         /\ t.type = kind)

(***************************************************************************)
(* C3.  Profit and loss: net_profit is total_income minus total_expenses,  *)
(* total_income is the sum of the amounts of the income transactions in    *)
(* the queried range and total_expenses the sum of the amounts of the      *)
(* expense transactions in it; with no transaction in the range the totals *)
(* are 0 and the category maps are empty.                                  *)
(***************************************************************************)
C3_NetProfitOfIncomeAndExpenseSums ==
    Reported("profit_loss") =>
        LET body == response.body
        IN  /\ body.net_profit = FSub(body.total_income, body.total_expenses)
            /\ body.total_income = SumOf(InRangeOfKind(body.period, "income"))
            /\ body.total_expenses =
                  SumOf(InRangeOfKind(body.period, "expense"))
            /\ fetched = <<>> =>
                  /\ body.total_income = FZero
                  /\ body.total_expenses = FZero
                  /\ body.net_profit = FZero
                  /\ body.income_by_category = EmptyDict
                  /\ body.expense_by_category = EmptyDict

\* The same, of a store whose transactions are all incomes and expenses.
C3_HoldsOfKnownKinds == KnownKinds => C3_NetProfitOfIncomeAndExpenseSums

\* A report over incomes and expenses that leaves some of the store out of
\* its range.
C3_WitnessKnownKinds ==
    /\ KnownKinds
    /\ Reported("profit_loss")
    /\ response.body.total_income # FZero
    /\ response.body.total_expenses # FZero
    /\ response.body.transaction_count = 2
    /\ Len(transactions) = 3

(***************************************************************************)
(* C4.  Profit and loss: profit_margin is net_profit / total_income * 100  *)
(* when total_income > 0 and 0 otherwise, so it is 0 whenever total_income *)
(* is 0; no request fails on a division by zero: the only requests that    *)
(* end in a server error are those with a malformed date string.           *)
(***************************************************************************)
C4_ProfitMarginWithoutDivisionByZero ==
    request.endpoint = "profit_loss" =>
        /\ response.status = 200 =>
              LET body == response.body
              IN  /\ FPos(body.total_income) =>
                        body.profit_margin =
                            FMul(FDiv(body.net_profit, body.total_income),
                                 FromInt(100))
                  /\ ~FPos(body.total_income) => body.profit_margin = FZero
                  /\ body.total_income = FZero => body.profit_margin = FZero
        /\ response.status = 500 =>
              request.start_date = BadDate \/ request.end_date = BadDate

\* A report of expenses with no income: total_income is 0 and net_profit is
\* not.
C4_WitnessNoIncome ==
    /\ Reported("profit_loss")
    /\ response.body.total_income = FZero
    /\ response.body.net_profit # FZero
    /\ response.body.profit_margin = FZero

\* A report with a positive income and a margin that is not 0.
C4_WitnessMargin ==
    /\ Reported("profit_loss")
    /\ FPos(response.body.total_income)
    /\ response.body.profit_margin # FZero
    /\ response.body.profit_margin # FromInt(100)

\* A report over a negative total income (an income of a negative amount):
\* the margin is 0.
C4_WitnessNegativeIncome ==
    /\ Reported("profit_loss")
    /\ response.body.total_income = FromInt(-1)
    /\ response.body.profit_margin = FZero

(***************************************************************************)
(* C5.  Balance sheet: balance_check is true in every report, that of the  *)
(* empty store included, and equity is assets.total minus                  *)
(* liabilities.total.                                                      *)
(***************************************************************************)
C5_BalanceCheckAlwaysTrue ==
    Reported("balance_sheet") =>
        LET body == response.body
        IN  /\ body.balance_check = TRUE
            /\ body.equity = FSub(body.assets.total, body.liabilities.total)

\* What does hold: equity is the difference of the totals, and balance_check
\* is true exactly when adding the total expenses to this float gives back
\* the total income.
C5_EquityIsTheDifference ==
    Reported("balance_sheet") =>
        LET body == response.body
        IN  /\ body.equity = FSub(body.assets.total, body.liabilities.total)
            /\ body.balance_check =
                  (body.assets.total = FAdd(body.liabilities.total, body.equity))
            /\ transactions = <<>> => body.balance_check = TRUE

\* A report whose balance_check is false.
C5_WitnessCheckFalse ==
    /\ Reported("balance_sheet")
    /\ KnownKinds
    /\ response.body.balance_check = FALSE

\* strftime("%Y-%m") of a date.
MonthKey(date) == FmtY(date) \o Dash \o Fmtm(date)

\* The months with a transaction in the window of the trends report: those
\* of the stored transactions from analysis_period.from on.
MonthsInWindow ==
    {MonthKey(transactions[i].date) :
        i \in {j \in 1..Len(transactions) :
                  transactions[j].date >= response.body.analysis_period.from}}

\* The month of the keys that comes before all others.
Earliest(months) == CHOOSE m \in months : \A o \in months \ {m} : StrLess(m, o)

\* The month of the keys that comes just before the month.
MonthBefore(months, month) ==
    CHOOSE p \in months :
        /\ StrLess(p, month)
        /\ \A q \in months : StrLess(q, month) => q = p \/ StrLess(q, p)

\* A month's income minus its expenses in the monthly data of the report.
NetOf(month) ==
    FSub(response.body.monthly_data[month].income,
         response.body.monthly_data[month].expenses)

(***************************************************************************)
(* C6.  Trends: growth_rates has max(0, n - 1) entries, n the number of    *)
(* distinct months with a transaction in the window; they are in ascending *)
(* month order, one for each month but the earliest, and the net_profit of *)
(* an entry is its month's income minus its expenses.                      *)
(***************************************************************************)
C6_GrowthRatesOnePerMonthButTheFirst ==
    Reported("trends") =>
        LET growth_rates == response.body.growth_rates
            months == MonthsInWindow
            n == Cardinality(months)
        IN  /\ Len(growth_rates) = IF n = 0 THEN 0 ELSE n - 1
            /\ \A i \in 1..Len(growth_rates), j \in 1..Len(growth_rates) :
                  i < j => StrLess(growth_rates[i].month, growth_rates[j].month)
            /\ {growth_rates[i].month : i \in 1..Len(growth_rates)} =
                  IF n = 0 THEN {} ELSE months \ {Earliest(months)}
            /\ \A i \in 1..Len(growth_rates) :
                  growth_rates[i].net_profit = NetOf(growth_rates[i].month)

\* A report over three months: two entries.
C6_WitnessThreeMonths ==
    /\ Reported("trends")
    /\ Cardinality(MonthsInWindow) = 3
    /\ Len(response.body.growth_rates) = 2

\* A report over one month, and one over none while the store holds a
\* transaction older than the window: no entry.
C6_WitnessOneMonth ==
    /\ Reported("trends")
    /\ Cardinality(MonthsInWindow) = 1
    /\ Len(transactions) > 1
    /\ response.body.growth_rates = <<>>

C6_WitnessNoMonth ==
    /\ Reported("trends")
    /\ MonthsInWindow = {}
    /\ transactions # <<>>
    /\ response.body.growth_rates = <<>>

(***************************************************************************)
(* C7.  Trends: the growth_rate of a month over the month before it is     *)
(* (curr_net - prev_net) / |prev_net| * 100 when prev_net is not 0; when   *)
(* prev_net is 0 it is 100 if curr_net > 0 and -100 otherwise, so two      *)
(* months of net 0 give -100, never 0.                                     *)
(***************************************************************************)
C7_GrowthRateFormula ==
    Reported("trends") =>
        LET growth_rates == response.body.growth_rates
            months == DOMAIN response.body.monthly_data
        IN  \A i \in 1..Len(growth_rates) :
                LET curr_net == NetOf(growth_rates[i].month)
                    prev_net == NetOf(MonthBefore(months, growth_rates[i].month))
                    rate     == growth_rates[i].growth_rate
                IN  /\ prev_net # FZero =>
                          rate = FMul(FDiv(FSub(curr_net, prev_net),
                                           FAbs(prev_net)), FromInt(100))
                    /\ prev_net = FZero /\ FPos(curr_net) =>
                          rate = FromInt(100)
                    /\ prev_net = FZero /\ ~FPos(curr_net) =>
                          rate = FromInt(-100)
                    /\ prev_net = FZero /\ curr_net = FZero =>
                          rate = FromInt(-100) /\ rate # FZero

\* Two months of net 0, the first with an income and an expense that cancel:
\* the rate is -100.
C7_WitnessZeroAfterZero ==
    /\ Reported("trends")
    /\ Len(response.body.growth_rates) = 1
    /\ NetOf(response.body.growth_rates[1].month) = FZero
    /\ NetOf(MonthBefore(DOMAIN response.body.monthly_data,
                         response.body.growth_rates[1].month)) = FZero
    /\ response.body.growth_rates[1].growth_rate = FromInt(-100)

\* A month of positive net after a month of negative net: a rate that is
\* neither 100 nor -100.
C7_WitnessFromNegative ==
    /\ Reported("trends")
    /\ Len(response.body.growth_rates) >= 1
    /\ FPos(NetOf(response.body.growth_rates[1].month))
    /\ FPos(FNeg(NetOf(MonthBefore(DOMAIN response.body.monthly_data,
                                   response.body.growth_rates[1].month))))
    /\ response.body.growth_rates[1].growth_rate
            \notin {FromInt(100), FromInt(-100)}

\* The transactions the trends query returned that are of the month, and
\* those of them of a category or of a kind.
OfMonth(month) == SelectSeq(fetched, LAMBDA t : MonthKey(t.date) = month)

OfCategory(txs, category) == SelectSeq(txs, LAMBDA t : t.category = category)

OfKind(txs, kind) == SelectSeq(txs, LAMBDA t : t.type = kind)

\* category_trends[c][m] is the sum of the amounts of all transactions of
\* category c in month m, of whatever kind, and there is an entry for
\* exactly the categories and months that have a transaction.
CategoryTrendsRegardlessOfKind ==
    LET category_trends == response.body.category_trends
    IN  /\ DOMAIN category_trends =
              {fetched[i].category : i \in 1..Len(fetched)}
        /\ \A c \in DOMAIN category_trends :
              /\ DOMAIN category_trends[c] =
                    {MonthKey(fetched[i].date) :
                        i \in {j \in 1..Len(fetched) : fetched[j].category = c}}
              /\ \A m \in DOMAIN category_trends[c] :
                    category_trends[c][m] = SumOf(OfCategory(OfMonth(m), c))

(***************************************************************************)
(* C8.  Trends: category_trends[c][m] is the sum of the amounts of all     *)
(* transactions of category c in month m regardless of kind, while         *)
(* monthly_data[m] holds the sum of the month's income amounts and the sum *)
(* of the month's expense amounts apart.                                   *)
(***************************************************************************)
C8_CategoryTrendsAndSeparateMonthlySums ==
    Reported("trends") =>
        LET monthly_data == response.body.monthly_data
        IN  /\ CategoryTrendsRegardlessOfKind
            /\ DOMAIN monthly_data =
                  {MonthKey(fetched[i].date) : i \in 1..Len(fetched)}
            /\ \A m \in DOMAIN monthly_data :
                  /\ monthly_data[m].income = SumOf(OfKind(OfMonth(m), "income"))
                  /\ monthly_data[m].expenses =
                        SumOf(OfKind(OfMonth(m), "expense"))

\* The same, of a store whose transactions are all incomes and expenses.
C8_HoldsOfKnownKinds == KnownKinds => C8_CategoryTrendsAndSeparateMonthlySums

\* The part on category_trends, of every store.
C8_CategoryTrendsOfEveryStore ==
    Reported("trends") => CategoryTrendsRegardlessOfKind

\* An income and an expense of one category in one month: one trend value,
\* their sum, and two separate monthly sums.
C8_WitnessKnownKinds ==
    /\ KnownKinds
    /\ Reported("trends")
    /\ MonthKey(DayB) \in DOMAIN response.body.monthly_data
    /\ response.body.monthly_data[MonthKey(DayB)].income = FromInt(1)
    /\ response.body.monthly_data[MonthKey(DayB)].expenses = FromInt(1)
    /\ response.body.category_trends["salary"][MonthKey(DayB)] = FromInt(2)

\* The endpoints of the reports.
ReportEndpoints == {"profit_loss", "balance_sheet", "cash_flow", "trends"}

\* The roles the claim names for the endpoint.
RolesNamedFor(endpoint) ==
    IF endpoint = "trends"
    THEN {"admin", "data_analyst", "financial_manager"}
    ELSE {"admin", "accountant", "financial_manager", "auditor", "viewer"}

\* The request is one for profit and loss with a malformed date string.
MalformedDate ==
    /\ request.endpoint = "profit_loss"
    /\ request.start_date = BadDate \/ request.end_date = BadDate

\* A caller of another role gets the forbidden error and nothing else, and
\* the store is not read.
ForbiddenWithoutData ==
    request.role \notin RolesNamedFor(request.endpoint) =>
        /\ response = Forbidden
        /\ queries = 0
        /\ fetched = <<>>

(***************************************************************************)
(* C9, as stated.  A report request is answered with a report exactly when *)
(* the caller's role is one of those named for the endpoint; any other     *)
(* role gets the forbidden error with no report data, and the store is not *)
(* read.                                                                   *)
(***************************************************************************)
C9_ReportExactlyWhenRoleNamed ==
    request.endpoint \in ReportEndpoints =>
        /\ response.status = 200 <=>
              request.role \in RolesNamedFor(request.endpoint)
        /\ ForbiddenWithoutData

(***************************************************************************)
(* C9, amended.  Balance sheet, cash flow and trends are answered with a   *)
(* report exactly when the caller's role is one of those named for the     *)
(* endpoint, profit and loss exactly when it is and neither date string is *)
(* malformed; any other role gets the forbidden error with no report data, *)
(* and the store is not read.                                              *)
(***************************************************************************)
C9_ReportRoleGate ==
    request.endpoint \in ReportEndpoints =>
        /\ response.status = 200 <=>
              /\ request.role \in RolesNamedFor(request.endpoint)
              /\ ~MalformedDate
        /\ ForbiddenWithoutData

\* A viewer asks for the trends of a full store and an analyst for its
\* balance sheet: forbidden.
C9_WitnessForbidden ==
    /\ request.endpoint = "trends"
    /\ request.role = "viewer"
    /\ Len(transactions) = MaxTx
    /\ response = Forbidden

C9_WitnessAnalystForbidden ==
    /\ request.endpoint = "balance_sheet"
    /\ request.role = "data_analyst"
    /\ Len(transactions) = MaxTx
    /\ response = Forbidden

\* An analyst gets the trends, a viewer the cash flow.
C9_WitnessAnalystTrends ==
    /\ Reported("trends")
    /\ request.role = "data_analyst"
    /\ queries = 1

C9_WitnessViewerCashFlow ==
    /\ Reported("cash_flow")
    /\ request.role = "viewer"
    /\ queries = 1

\* An admin asks for profit and loss with a malformed end date: no report.
C9_WitnessMalformedDate ==
    /\ MalformedDate
    /\ request.role = "admin"
    /\ response.status # 200

(***************************************************************************)
(* C10.  Cash flow: a request whose period is not daily, weekly, monthly   *)
(* or yearly never gets a report and the store is not read for it; a       *)
(* caller who may see reports gets an invalid-input error (400 or 422).    *)
(***************************************************************************)
C10_UnsupportedPeriodRejected ==
    /\ request.endpoint = "cash_flow"
    /\ request.period \notin {"daily", "weekly", "monthly", "yearly"}
    => /\ response.status # 200
       /\ queries = 0
       /\ request.role \in RolesNamedFor("cash_flow") =>
             response.status \in {400, 422}

\* What the code does with such a period: the report by years, under the
\* period's name.
C10_UnsupportedPeriodIsYearly ==
    /\ Reported("cash_flow")
    /\ request.period \notin {"daily", "weekly", "monthly", "yearly"}
    => /\ response.body = CashFlowReport(fetched, request.period)
       /\ response.body.cash_flow = CashFlowReport(fetched, "yearly").cash_flow
       /\ response.body.period_type = request.period
       /\ queries = 1

\* A report by years of a store of two years, asked for as "quarterly".
C10_WitnessQuarterly ==
    /\ Reported("cash_flow")
    /\ request.period = "quarterly"
    /\ Len(response.body.cash_flow) = 2
    /\ response.body.cash_flow[1].period = FmtY(DayZ)
    /\ response.body.cash_flow[2].period = FmtY(DayA)

\* The query of the request returned a transaction that is neither an income
\* nor an expense.
FetchedUnknownKind ==
    \E i \in 1..Len(fetched) : fetched[i].type \notin {"income", "expense"}

(***************************************************************************)
(* C11.  The report builders classify by kind only, and a transaction      *)
(* whose kind is neither income nor expense is a data-integrity error: a   *)
(* report request that reads one is answered with an error, not with a     *)
(* report that leaves it out or counts it into a total.                    *)
(***************************************************************************)
C11_UnknownKindIsAnError ==
    request.endpoint \in ReportEndpoints /\ FetchedUnknownKind
        => response.status # 200

\* What the code does with it: the four builders count it as an expense.
C11_UnknownKindCountsAsExpense ==
    /\ Reported("profit_loss") =>
          response.body.total_expenses =
              SumOf(SelectSeq(fetched, LAMBDA t : t.type # "income"))
    /\ Reported("balance_sheet") =>
          response.body.liabilities.total =
              SumOf(SelectSeq(fetched, LAMBDA t : t.type # "income"))
    /\ Reported("cash_flow") =>
          \A k \in 1..Len(response.body.cash_flow) :
              response.body.cash_flow[k].expenses =
                  SumOf(SelectSeq(fetched,
                      LAMBDA t : /\ t.type # "income"
                                 /\ PeriodKey(request.period, t.date) =
                                        response.body.cash_flow[k].period))
    /\ Reported("trends") =>
          \A m \in DOMAIN response.body.monthly_data :
              response.body.monthly_data[m].expenses =
                  SumOf(SelectSeq(OfMonth(m), LAMBDA t : t.type # "income"))

\* Each builder reports on a store that holds a transfer.
C11_WitnessTransferReported ==
    /\ request.endpoint \in ReportEndpoints
    /\ FetchedUnknownKind
    /\ response.status = 200

(***************************************************************************)
(* C12.  Profit and loss: a request with a malformed start_date or         *)
(* end_date gets a bad-request error, neither a report nor a server        *)
(* error, and no query is issued for it.                                   *)
(***************************************************************************)
C12_MalformedDateIsBadRequest ==
    MalformedDate /\ request.role \in RolesNamedFor("profit_loss")
        => /\ response.status \in {400, 422}
           /\ queries = 0

\* What the code does with it: the ValueError of fromisoformat ends the
\* request as an internal server error, before the query.
C12_MalformedDateIsServerError ==
    MalformedDate /\ request.role \in RolesNamedFor("profit_loss")
        => /\ response = ServerError
           /\ queries = 0
           /\ fetched = <<>>

C12_WitnessMalformedDate ==
    /\ MalformedDate
    /\ request.role = "viewer"
    /\ transactions # <<>>
    /\ response.status = 500

(***************************************************************************)
(* C14.  No report request, answered or refused, changes the transaction   *)
(* store: every step that serves a report request leaves the transactions  *)
(* and each of their fields as they were.                                  *)
(***************************************************************************)
C14_ReportsLeaveTheStore ==
    [][request'.endpoint \in ReportEndpoints =>
          transactions' = transactions /\ nextId' = nextId]_vars

\* A report over a full store, and a refusal over one.
C14_WitnessReportOverFullStore ==
    /\ request.endpoint \in ReportEndpoints
    /\ response.status = 200
    /\ Len(transactions) = MaxTx
    /\ fetched = transactions

C14_WitnessRefusalOverFullStore ==
    /\ request.endpoint \in ReportEndpoints
    /\ response = Forbidden
    /\ Len(transactions) = MaxTx

(***************************************************************************)
(* C13.  After any sequence of create_transaction and update_transaction   *)
(* requests, every transaction in the store has an amount >= 0 and a kind  *)
(* that is exactly income or expense.                                      *)
(***************************************************************************)
C13_StoredTransactionsAreValid ==
    \A i \in 1..Len(transactions) :
        /\ transactions[i].amount.m >= 0
        /\ transactions[i].type \in {"income", "expense"}

\* What the code keeps: a stored transaction carries the type and the
\* amount of some request, whatever they are.
C13_StoredAsRequested ==
    \A i \in 1..Len(transactions) :
        \E data \in LedgerInputs :
            /\ transactions[i].amount = data.amount
            /\ transactions[i].type = data.type

\* A negative amount of an unknown kind put by an update.
C13_WitnessInvalidByUpdate ==
    \E c \in Clients :
        /\ calls[c].op = "update_transaction"
        /\ calls[c].response.status = 200
        /\ calls[c].response.body.amount.m < 0
        /\ calls[c].response.body.type = "transfer"
        /\ \E i \in 1..Len(transactions) :
              transactions[i] = calls[c].response.body

(***************************************************************************)
(* C15.  update_transaction on an existing transaction replaces its kind,  *)
(* amount, category, description and date with the request's values and    *)
(* leaves its id, created_by and created_at as they were, also when the    *)
(* updater is not the creator; no other transaction is changed and the     *)
(* number of transactions stays the same.                                  *)
(***************************************************************************)
\* The step of the call of client c is the write of an update.
UpdateWrites(c) ==
    /\ calls[c].op = "update_transaction"
    /\ calls[c].pc = "update_one"
    /\ calls'[c].pc = "find_one"

\* The step belongs to an update_transaction call of client c.
UpdateSteps(c) ==
    /\ calls[c].op = "update_transaction"
    /\ calls[c].pc # "done"
    /\ calls'[c] # calls[c]

C15_UpdateReplacesTheRequestedFields ==
    [][\A c \in Clients :
          /\ UpdateWrites(c) =>
                \E i \in 1..Len(transactions) :
                   /\ transactions[i].id = calls[c].args.transaction_id
                   /\ Len(transactions') = Len(transactions)
                   /\ \A f \in {"type", "amount", "category", "description",
                               "date"} :
                         transactions'[i][f] =
                            calls[c].args.transaction_data[f]
                   /\ \A f \in {"id", "created_by", "created_at"} :
                         transactions'[i][f] = transactions[i][f]
                   /\ \A j \in 1..Len(transactions) :
                         j # i => transactions'[j] = transactions[j]
          /\ UpdateSteps(c) /\ ~UpdateWrites(c) =>
                transactions' = transactions]_vars

\* An update by a user who did not create the transaction has changed
\* every field it may, in a store of two transactions.
C15_WitnessUpdatedByAnother ==
    \E c \in Clients :
        /\ calls[c].op = "update_transaction"
        /\ calls[c].response.status = 200
        /\ calls[c].response.body.created_by # calls[c].current_user.id
        /\ Len(transactions) = 2
        /\ \E i \in 1..2 :
              /\ transactions[i] = calls[c].response.body
              /\ transactions[i].type = "income"
              /\ transactions[3 - i].type = "transfer"

(***************************************************************************)
(* C16.  The writes are gated by role: register succeeds only for an       *)
(* admin, create_transaction and update_transaction only for an admin, an  *)
(* accountant or a financial manager, delete_transaction only for an admin *)
(* or an accountant; a caller of any other role gets 403, and the users,   *)
(* the transactions and the activity log are left as they were.            *)
(***************************************************************************)
\* The roles the claim names for the route.
RolesNamedForWrite(op) ==
    CASE op = "register" -> {"admin"}
      [] op = "create_transaction" ->
            {"admin", "accountant", "financial_manager"}
      [] op = "update_transaction" ->
            {"admin", "accountant", "financial_manager"}
      [] op = "delete_transaction" -> {"admin", "accountant"}

GatedWrites ==
    {"register", "create_transaction", "update_transaction",
     "delete_transaction"}

\* The step is the arrival of a call of client c whose token is accepted.
Arrives(c) ==
    /\ MayCall(c)
    /\ calls'[c].pc # "idle"
    /\ budget' # budget \/ calls'[c].pc = "done"
    /\ \A d \in Clients \ {c} : calls'[d] = calls[d]
    /\ clock' = clock
    /\ calls'[c].response.status # 401

C16_WritesAreRoleGated ==
    [][\A c \in Clients :
          /\ Arrives(c) /\ calls'[c].op \in GatedWrites
             /\ calls'[c].current_user.role
                   \notin RolesNamedForWrite(calls'[c].op) =>
                /\ calls'[c].response = Forbidden
                /\ calls'[c].effects = <<>>
                /\ users' = users
                /\ transactions' = transactions
                /\ activity_logs' = activity_logs
          /\ calls'[c].op \in GatedWrites
             /\ calls'[c].response.status = 200 =>
                calls'[c].current_user.role
                   \in RolesNamedForWrite(calls'[c].op)]_vars

\* The financial manager, who may create and update, is refused the
\* deletion of a transaction that is in the store.
C16_WitnessManagerRefusedDelete ==
    \E c \in Clients :
        /\ calls[c].op = "delete_transaction"
        /\ calls[c].response = Forbidden
        /\ calls[c].current_user.role = FINANCIAL_MANAGER
        /\ \E i \in 1..Len(transactions) :
              /\ transactions[i].id = calls[c].args
              /\ transactions[i].created_by = calls[c].current_user.id

\* The viewer is refused register; the admin's register has succeeded.
C16_WitnessViewerRefusedRegister ==
    \E c \in Clients :
        /\ calls[c].op = "register"
        /\ calls[c].response = Forbidden
        /\ calls[c].current_user.role = VIEWER
        /\ Len(users) = Len(LedgerUsers) + 1

(***************************************************************************)
(* C17.  update_transaction and delete_transaction on a transaction id     *)
(* that is not in the store return a not-found error, leave the            *)
(* transaction store unchanged and append no activity-log entry; deleting  *)
(* the same transaction twice succeeds the first time and returns          *)
(* not-found the second time.                                              *)
(***************************************************************************)
\* The step is the write of the update or delete call of client c.
WritesById(c) ==
    \/ calls[c].op = "update_transaction" /\ calls[c].pc = "update_one"
          /\ calls'[c] # calls[c]
    \/ calls[c].op = "delete_transaction" /\ calls[c].pc = "delete_one"
          /\ calls'[c] # calls[c]

\* The transaction id of an update or delete call.
IdOf(call) ==
    IF call.op = "update_transaction" THEN call.args.transaction_id
    ELSE call.args

\* The ids of the transactions in the store.
StoredIds == {transactions[i].id : i \in 1..Len(transactions)}

C17_UnknownIdIsNotFound ==
    [][\A c \in Clients :
          /\ WritesById(c) /\ IdOf(calls[c]) \notin StoredIds =>
                /\ calls'[c].response.status = 404
                /\ calls'[c].pc = "done"
                /\ calls'[c].effects = <<>>
                /\ transactions' = transactions
                /\ activity_logs' = activity_logs
          /\ WritesById(c) /\ IdOf(calls[c]) \in StoredIds
             /\ calls[c].op = "delete_transaction" =>
                /\ calls'[c].response.status # 404
                /\ IdOf(calls[c]) \notin
                      {transactions'[i].id : i \in 1..Len(transactions')}
                /\ Len(transactions') = Len(transactions) - 1
          /\ calls[c].op = "delete_transaction"
             /\ calls[c].pc = "log_activity" /\ calls'[c] # calls[c] =>
                calls'[c].response.status = 200]_vars

\* The second deletion of a transaction: not found, after the first one
\* was logged.
C17_WitnessDeletedTwice ==
    \E c \in Clients :
        /\ calls[c].op = "delete_transaction"
        /\ calls[c].response.status = 404
        /\ \E k \in 1..Len(activity_logs) :
              /\ activity_logs[k].action = "delete_transaction"
              /\ activity_logs[k].details = calls[c].args
        /\ activity_logs[Len(activity_logs)].action = "delete_transaction"

\* An update of an id that no transaction has, over a store that has one.
C17_WitnessUpdateOfUnknownId ==
    \E c \in Clients :
        /\ calls[c].op = "update_transaction"
        /\ calls[c].response.status = 404
        /\ transactions # <<>>

(***************************************************************************)
(* C18.  login with an unknown username or a wrong password returns 401,   *)
(* issues no token, does not update any user's last_login and appends no   *)
(* activity-log entry.                                                     *)
(***************************************************************************)
\* The step is the arrival of a login call of client c.
LoginArrives(c) ==
    /\ MayCall(c)
    /\ calls'[c].op = "login"
    /\ budget' # budget \/ calls'[c].pc = "done"
    /\ \A d \in Clients \ {c} : calls'[d] = calls[d]
    /\ clock' = clock

\* No user has the username, or the user who has it has another password.
BadCredentials(user_credentials) ==
    \A i \in 1..Len(users) :
        users[i].username = user_credentials.username =>
            users[i].password # get_password_hash(user_credentials.password)

C18_BadLoginIsRefused ==
    [][\A c \in Clients :
          LoginArrives(c) /\ BadCredentials(calls'[c].args) =>
             /\ calls'[c].response.status = 401
             /\ "access_token" \notin DOMAIN calls'[c].response.body
             /\ calls'[c].pc = "done"
             /\ calls'[c].effects = <<>>
             /\ issued' = issued
             /\ users' = users
             /\ activity_logs' = activity_logs]_vars

\* A wrong password for the super admin, who has logged in before; an
\* unknown username, after the user of that name was deleted.
C18_WitnessWrongPassword ==
    \E c \in Clients :
        /\ calls[c].op = "login"
        /\ calls[c].response.status = 401
        /\ calls[c].args.username = "Nasser7A321"
        /\ users[1].last_login # None
        /\ issued # {}

C18_WitnessUnknownUsername ==
    \E c \in Clients :
        /\ calls[c].op = "login"
        /\ calls[c].response.status = 401
        /\ calls[c].args.username = "bob"
        /\ \A i \in 1..Len(users) : users[i].username # "bob"
        /\ \E k \in 1..Len(activity_logs) :
              activity_logs[k].action = "delete_user"

(***************************************************************************)
(* C19.  User lifecycle: a user registered by an admin can log in with the *)
(* registered password and use the issued token until the user is removed; *)
(* once delete_user or the cleanup of expired users has removed the user,  *)
(* every later request that carries that user's token is rejected with     *)
(* 401.                                                                    *)
(***************************************************************************)
\* The step is the arrival of a GET /auth/me call of client c.
MeArrives(c) ==
    /\ MayCall(c)
    /\ calls'[c].op = "get_current_user_info"
    /\ calls'[c].pc = "done"
    /\ \A d \in Clients \ {c} : calls'[d] = calls[d]
    /\ clock' = clock

\* The ids of the users in the store.
UserIds == {users[i].id : i \in 1..Len(users)}

\* Every user that login has returned the token for has been removed.
TokenOfRemovedUser(token) ==
    \A grant \in issued :
        grant.access_token = token => grant.user_id \notin UserIds

C19_TokenOfRemovedUserIsRejected ==
    [][\A c \in Clients :
          MeArrives(c) /\ TokenOfRemovedUser(calls'[c].args) =>
             calls'[c].response.status = 401]_vars

\* The first half: the token of a user who is in the store is accepted.
C19_TokenOfPresentUserIsAccepted ==
    [][\A c \in Clients :
          MeArrives(c) /\ ~TokenOfRemovedUser(calls'[c].args) =>
             calls'[c].response.status = 200]_vars

\* The registered password logs the user in for as long as the user is in
\* the store.
C19_RegisteredPasswordLogsIn ==
    [][\A c \in Clients :
          LoginArrives(c) /\ ~BadCredentials(calls'[c].args) =>
             /\ calls'[c].pc = "update_one"
             /\ calls'[c].local.user.username = calls'[c].args.username]_vars

\* What the code does with a token: it is accepted exactly when it has not
\* expired and some user in the store has the username it names, and the
\* request is served as that user.
C19_TokenServesItsUsername ==
    [][\A c \in Clients :
          MeArrives(c) =>
             IF /\ calls'[c].args.exp > clock
                /\ \E i \in 1..Len(users) :
                      users[i].username = calls'[c].args.sub
             THEN /\ calls'[c].response.status = 200
                  /\ calls'[c].response.body.username = calls'[c].args.sub
             ELSE calls'[c].response.status = 401]_vars

\* The token of the deleted bob is accepted for the bob registered after.
C19_WitnessTokenOutlivesItsUser ==
    \E c \in Clients :
        /\ calls[c].op = "get_current_user_info"
        /\ calls[c].response.status = 200
        /\ TokenOfRemovedUser(calls[c].args)
        /\ calls[c].response.body.id \in UserIds
        /\ \E k \in 1..Len(activity_logs) :
              activity_logs[k].action = "delete_user"

(***************************************************************************)
(* C20.  From the state after startup, with its one super admin, under any *)
(* interleaving of register, delete_user and cleanup requests the user     *)
(* store always contains at least one admin.                               *)
(***************************************************************************)
\* The admins in the store.
Admins(docs) ==
    {docs[i].id : i \in {k \in 1..Len(docs) : docs[k].role = "admin"}}

C20_AnAdminRemains == Admins(users) # {}

\* The two facts the claim rests on, which hold: no delete_user call
\* removes the account of its own current_user, and no step of a cleanup
\* call removes an admin.
C20_NoAdminDeletesTheirOwnAccount ==
    [][\A c \in Clients :
          calls[c].op = "delete_user" /\ calls[c].pc = "delete_one"
          /\ calls'[c] # calls[c] =>
             /\ calls[c].current_user.id # calls[c].args
             /\ \A id \in UserIds :
                   id # calls[c].args => id \in {users'[i].id :
                                                 i \in 1..Len(users')}]_vars

C20_CleanupRemovesNoAdmin ==
    [][\A c \in Clients :
          calls[c].op = "manual_cleanup_expired_users"
          /\ calls[c].pc # "done" /\ calls'[c] # calls[c] =>
             Admins(users') = Admins(users)]_vars

\* Two admins have each deleted the other: both calls passed
\* get_current_user before either delete_one ran.
C20_WitnessAdminsDeletedEachOther ==
    /\ users = <<>>
    /\ \A c \in Clients :
          /\ calls[c].op = "delete_user"
          /\ calls[c].response.status = 200
          /\ calls[c].current_user.role = ADMIN

(***************************************************************************)
(* C21.  Under any interleaving of register requests, no two users in the  *)
(* store share a username or an email: a register request for a username   *)
(* or an email that is already present returns 400 and inserts nothing.    *)
(***************************************************************************)
C21_NoSharedUsernameOrEmail ==
    \A i, j \in 1..Len(users) :
        i # j => /\ users[i].username # users[j].username
                 /\ users[i].email # users[j].email

\* What the code keeps: a register call whose find_one sees a user of the
\* username or the email ends with 400 and has inserted nothing.
C21_SeenDuplicateIsRefused ==
    [][\A c \in Clients :
          /\ calls[c].op = "register" /\ calls[c].pc = "find_one"
          /\ calls'[c] # calls[c]
          /\ \E i \in 1..Len(users) :
                \/ users[i].username = calls[c].args.username
                \/ users[i].email = calls[c].args.email
          => /\ calls'[c].response.status = 400
             /\ calls'[c].pc = "done"
             /\ calls'[c].effects = <<>>
             /\ users' = users]_vars

\* Two register calls for one username have both answered 200, and the
\* store holds two users of that username.
C21_WitnessRegisteredTwice ==
    /\ \A c \in Clients :
          /\ calls[c].op = "register"
          /\ calls[c].response.status = 200
          /\ calls[c].args.username = "amy"
    /\ Cardinality({i \in 1..Len(users) : users[i].username = "amy"}) = 2

(***************************************************************************)
(* C22.  A successful update_transaction response carries exactly the      *)
(* kind, amount, category, description and date supplied in that same      *)
(* request, and the request appends its activity-log entry, also when      *)
(* another caller's update or delete of the same transaction interleaves   *)
(* between its write and its read-back.                                    *)
(***************************************************************************)
\* The fields that TransactionCreate carries.
RequestedFields == {"type", "amount", "category", "description", "date"}

\* The call is an update_transaction that has answered 200.
UpdatedOk(call) ==
    /\ call.op = "update_transaction"
    /\ call.pc = "done"
    /\ call.response.status = 200

C22_UpdateAnswersWithItsOwnValues ==
    \A c \in Clients :
        UpdatedOk(calls[c]) =>
           /\ \A f \in RequestedFields :
                 calls[c].response.body[f] =
                    calls[c].args.transaction_data[f]
           /\ calls[c].effects =
                 <<"transactions.update_one", "activity_logs.insert_one">>

\* What the code keeps: every update that has written appends one log
\* entry of its caller, whatever it answers, and a 200 carries the
\* transaction of the id as the read-back found it.
C22_UpdateThatWroteIsLogged ==
    [][\A c \in Clients :
          calls[c].op = "update_transaction"
          /\ calls[c].pc = "log_activity" /\ calls'[c] # calls[c] =>
             /\ Len(activity_logs') = Len(activity_logs) + 1
             /\ activity_logs'[Len(activity_logs')].user_id =
                   calls[c].current_user.id
             /\ calls'[c].response.status \in {200, 500}
             /\ calls'[c].response.status = 200 =>
                   /\ calls[c].local.updated_transaction # <<>>
                   /\ calls'[c].response.body =
                         Head(calls[c].local.updated_transaction)
                   /\ calls'[c].response.body.id =
                         calls[c].args.transaction_id]_vars

\* With one request served at a time the response carries the request's
\* values.
C22_UpdateAnswersWithItsOwnValuesAlone ==
    \A c \in Alone :
        UpdatedOk(calls[c]) =>
           \A f \in RequestedFields :
              calls[c].response.body[f] = calls[c].args.transaction_data[f]

\* An update has answered 200 with the values of the other caller's
\* update, which ran between its write and its read-back.
C22_WitnessAnsweredWithAnothersValues ==
    \E c \in Clients :
        /\ UpdatedOk(calls[c])
        /\ calls[c].response.body.type # calls[c].args.transaction_data.type
        /\ \E d \in Clients \ {c} :
              /\ calls[d].op = "update_transaction"
              /\ calls[d].args.transaction_id = calls[c].args.transaction_id
              /\ calls[d].args.transaction_data.type =
                    calls[c].response.body.type

\* An update has answered 500 after its log entry, the transaction having
\* been deleted between its write and its read-back.
C22_WitnessDeletedBeforeReadBack ==
    \E c \in Clients :
        /\ calls[c].op = "update_transaction"
        /\ calls[c].response = ServerError
        /\ calls[c].effects =
              <<"transactions.update_one", "activity_logs.insert_one">>

(***************************************************************************)
(* C23.  For every content of the transaction store, of any size, and      *)
(* every granularity, the cash-flow report's final_balance equals the      *)
(* balance-sheet report's equity computed on the same store content, that  *)
(* is total income minus total expenses over all transactions.             *)
(***************************************************************************)
\* The equity that the balance-sheet report gives for the store as it is.
EquityOfStore == BalanceSheetReport(to_list(transactions, FetchCap)).equity

C23_FinalBalanceIsEquity ==
    request.endpoint = "cash_flow" /\ response.status = 200 =>
        response.body.final_balance = EquityOfStore

\* Of a store that one query returns whole, whose amounts add without
\* rounding, the two reports agree.
C23_FinalBalanceIsEquityOfAStoreOneQueryReturns ==
    /\ request.endpoint = "cash_flow"
    /\ response.status = 200
    /\ Len(transactions) <= FetchCap
    => response.body.final_balance = EquityOfStore

\* The cash-flow report of a store of more than FetchCap transactions has
\* answered with a final_balance that is not the balance sheet's equity.
C23_WitnessReportsOfALargerStoreDiffer ==
    /\ request.endpoint = "cash_flow"
    /\ response.status = 200
    /\ Len(transactions) > FetchCap
    /\ response.body.final_balance # EquityOfStore

(***************************************************************************)
(* C24.  Audit completeness: every successful login, register,             *)
(* delete_user, create_transaction, update_transaction and                 *)
(* delete_transaction appends exactly one activity-log entry attributed to *)
(* the acting user, after the state change it records; a request that ends *)
(* in 400, 401, 403 or 404 appends none; and no operation ever removes or  *)
(* alters an existing log entry.                                           *)
(***************************************************************************)
\* The routes of the claim, each with the write that its log entry records.
Audited ==
    [login |-> "users.update_one",
     register |-> "users.insert_one",
     delete_user |-> "users.delete_one",
     create_transaction |-> "transactions.insert_one",
     update_transaction |-> "transactions.update_one",
     delete_transaction |-> "transactions.delete_one"]

\* The user who acts in the call: the one who logs in, or the one whose
\* token the request carries.
ActingUser(call) ==
    IF call.op = "login" THEN call.local.user.id ELSE call.current_user.id

\* The call of client c ends in this step.
Ends(c) == calls'[c] # calls[c] /\ calls'[c].pc = "done"

\* The step appends the entry to the log, as the one write of this step
\* by the call of client c.
AppendsFor(c) ==
    /\ Len(activity_logs') = Len(activity_logs) + 1
    /\ calls[c].pc \notin {"idle", "done"}
    /\ calls'[c].effects =
          Append(calls[c].effects, "activity_logs.insert_one")
    /\ \A d \in Clients \ {c} : calls'[d] = calls[d]

\* In every step the log keeps the entries it had, and gains at most one,
\* which a call in progress has written.
LogOnlyGrows ==
    /\ Len(activity_logs') >= Len(activity_logs)
    /\ SubSeq(activity_logs', 1, Len(activity_logs)) = activity_logs
    /\ \/ activity_logs' = activity_logs
       \/ \E c \in Clients : AppendsFor(c)

\* A call of one of the routes that ends with 200 has written its state
\* change and then, in its last step, one log entry of the acting user.
SuccessIsLoggedOnce(c) ==
    Ends(c) /\ calls'[c].op \in DOMAIN Audited /\ calls'[c].response.status = 200
    => /\ AppendsFor(c)
       /\ calls'[c].effects =
             <<Audited[calls'[c].op], "activity_logs.insert_one">>
       /\ activity_logs'[Len(activity_logs')].user_id = ActingUser(calls'[c])
       /\ activity_logs'[Len(activity_logs')].action = calls'[c].op

\* A call that ends with 400, 401, 403 or 404 has written no log entry.
RefusalIsNotLogged(c) ==
    Ends(c) /\ calls'[c].response.status \in {400, 401, 403, 404}
    => /\ activity_logs' = activity_logs
       /\ \A i \in 1..Len(calls'[c].effects) :
             calls'[c].effects[i] # "activity_logs.insert_one"

C24_AuditCompleteness ==
    [][/\ LogOnlyGrows
       /\ \A c \in Clients : SuccessIsLoggedOnce(c) /\ RefusalIsNotLogged(c)]_vars

\* The calls of both clients have ended, one with 200 and its log entry
\* as the last of the log, the other with 404 after the first had written.
C24_WitnessOneLoggedOneRefused ==
    \E c \in Clients, d \in Clients :
        /\ calls[c].pc = "done" /\ calls[d].pc = "done"
        /\ calls[c].op = "delete_transaction" /\ calls[c].response.status = 200
        /\ calls[d].op = "update_transaction" /\ calls[d].response.status = 404
        /\ Len(activity_logs) = 9
        /\ activity_logs[9].user_id = calls[c].current_user.id
        /\ activity_logs[9].action = "delete_transaction"

====
